---- MODULE Spec2Model ----
(***************************************************************************)
(* Model of proton-vpn-binary-status: the binary status file parser        *)
(* (status/parser.rs, status/server_status.rs), the score computation      *)
(* (compute_score.rs, coord.rs, jitter.rs) and compute_loads               *)
(* (compute_loads.rs).                                                     *)
(*                                                                         *)
(* Number representation.  f64 scores are fixed-point integers in units of *)
(* 1/SCORE_NORMALIZATION_FACTOR (1.0 = 10000 units), distances are metres, *)
(* coordinates are tenths of a degree.  An f32 read from the status file   *)
(* is kept as its IEEE-754 fields (sign, exponent, mantissa), so the range *)
(* checks of validate_server are evaluated on the bit pattern itself.      *)
(***************************************************************************)
EXTENDS Integers, Sequences, FiniteSets, TLC

VARIABLES
    loads,          \* compute_loads: the output slice `loads: &mut [Load]`
    logicals,       \* compute_loads: `logicals: &[Logical]`
    status_file,    \* the byte buffer given to Parser::try_from
    user_location,  \* compute_loads: `user_location: &Option<Location>`
    user_country,   \* compute_loads: `user_country: &Option<Country>`
    jitter_enabled, \* cargo feature "jitter"
    pc,             \* position inside compute_loads / the parser harness
    statuses,       \* result of Parser::try_from(status_file)
    result,         \* value returned by compute_loads
    k,              \* number of (load, logical) pairs the zip has consumed
    error_reported, \* the closure's captured `error_reported`
    warnings,       \* log::warn! records emitted by report_parsing_error
    sink_calls,     \* every invocation of the `log_errors` callback
    lookups,        \* the calls of Parser::get, in call order
    jitters,        \* samples returned by normalized_jitter(), in call order
    loads0,         \* contents of `loads` when compute_loads was entered
    call,           \* a function called on its own: its name and arguments
    ret             \* the value that call returned

vars == <<loads, logicals, status_file, user_location, user_country,
          jitter_enabled, pc, statuses, result, k, error_reported, warnings,
          sink_calls, lookups, jitters, loads0, call, ret>>

-----------------------------------------------------------------------------
(* Bounds of the model *)

MaxServers == 2

MaxRecords == 2

MaxGets == 2

MaxCountryChars == 3

MaxIters == 2

MaxCalls == 2

-----------------------------------------------------------------------------
(* Program constants *)

SERVER_SIZE == 6

VERSION_HEADER == <<1, 0, 0, 0>>

STATUS_ENABLED == 1

STATUS_VISIBLE == 2

STATUS_AUTOCONNECTABLE == 4

SCORE_NORMALIZATION_FACTOR == 10000

BANDWITH_DISTANCE_FACTOR == 738000

RADIUS_OF_THE_EARTH == 6371

\* PARTIAL_SCORE_CEILING = 0.99, in score units
PARTIAL_SCORE_CEILING == (99 * SCORE_NORMALIZATION_FACTOR) \div 100

\* NORMALIZED_JITTER_RANGE = -(100.0 / SCORE_NORMALIZATION_FACTOR), in score units
NORMALIZED_JITTER_RANGE == -((100 * SCORE_NORMALIZATION_FACTOR) \div SCORE_NORMALIZATION_FACTOR)

\* 1.0 in score units
One == SCORE_NORMALIZATION_FACTOR

-----------------------------------------------------------------------------
(* Helpers *)

Abs(x) == IF x < 0 THEN -x ELSE x

Max(a, b) == IF a >= b THEN a ELSE b

Min(a, b) == IF a <= b THEN a ELSE b

RECURSIVE Pow2(_)
Pow2(n) == IF n = 0 THEN 1 ELSE 2 * Pow2(n - 1)

\* x & mask != 0 for a single-bit mask
BitSet(x, mask) == (x \div mask) % 2 = 1

SubSeqFrom(s, from) == SubSeq(s, from, Len(s))

RECURSIVE Flatten(_)
Flatten(ss) == IF ss = <<>> THEN <<>> ELSE Head(ss) \o Flatten(Tail(ss))

SeqsUpTo(S, n) == UNION {[1..m -> S] : m \in 0..n}

-----------------------------------------------------------------------------
(* status/server_status.rs *)

\* f32::from_le_bytes([b0, b1, b2, b3]): the IEEE-754 binary32 fields
f32_from_le_bytes(b0, b1, b2, b3) ==
    [sign |-> b3 \div 128,
     exp  |-> (b3 % 128) * 2 + (b2 \div 128),
     mant |-> (b2 % 128) * 65536 + b1 * 256 + b0]

F32IsNaN(f) == f.exp = 255 /\ f.mant # 0

F32IsZero(f) == f.exp = 0 /\ f.mant = 0

\* f < 0.0 (false for NaN and for -0.0)
F32LtZero(f) == ~F32IsNaN(f) /\ f.sign = 1 /\ ~F32IsZero(f)

\* f > 1.0 (false for NaN; 1.0 has exponent 127 and mantissa 0)
F32GtOne(f) == ~F32IsNaN(f) /\ f.sign = 0 /\ (f.exp > 127 \/ (f.exp = 127 /\ f.mant > 0))

\* 0.0 <= f /\ f <= 1.0 as a statement about the number the bits denote
F32InUnitRange(f) ==
    /\ ~F32IsNaN(f)
    /\ (f.sign = 1 => F32IsZero(f))
    /\ (f.exp < 127 \/ (f.exp = 127 /\ f.mant = 0))

\* impl Default for ServerStatus
ServerStatus_default == [status |-> 0, load |-> 0, partial_score |-> f32_from_le_bytes(0, 0, 0, 0)]

\* the partial score read with the four bytes in big-endian order
ServerStatus_from_big_endian(src) ==
    [status |-> src[1],
     load |-> src[2],
     partial_score |-> f32_from_le_bytes(src[6], src[5], src[4], src[3])]

\* impl From<&[u8; 6]> for ServerStatus
ServerStatus_from(src) ==
    [status |-> src[1],
     load |-> src[2],
     partial_score |-> f32_from_le_bytes(src[3], src[4], src[5], src[6])]

\* validate_server testing the partial score only
validate_server_score_only(server) ==
    IF F32LtZero(server.partial_score) \/ F32GtOne(server.partial_score)
    THEN [ok |-> FALSE, value |-> server, msg |-> "Server partial score must be between 0.0 and 1.0"]
    ELSE [ok |-> TRUE, value |-> server, msg |-> ""]

\* validate_server: Ok(server) or Err(message)
validate_server(server) ==
    IF server.load > 100
    THEN [ok |-> FALSE, value |-> server, msg |-> "Server load must be between 0 and 100"]
    ELSE IF F32LtZero(server.partial_score) \/ F32GtOne(server.partial_score)
    THEN [ok |-> FALSE, value |-> server, msg |-> "Server partial score must be between 0.0 and 1.0"]
    ELSE [ok |-> TRUE, value |-> server, msg |-> ""]

\* impl TryFrom<&[u8]> for ServerStatus
ServerStatus_try_from(src) ==
    IF Len(src) # 6
    THEN [ok |-> FALSE, value |-> ServerStatus_default, msg |-> "Not enough bytes to parse ServerStatus"]
    ELSE validate_server(ServerStatus_from(src))

-----------------------------------------------------------------------------
(* status/parser.rs *)

\* handle_errors handing back the rejected record in place of the default
handle_errors_keeps_record(index, res, default) ==
    IF res.ok
    THEN [value |-> res.value, calls |-> <<>>]
    ELSE [value |-> res.value,
          calls |-> <<[index |-> index, byte_offset |-> index * SERVER_SIZE, msg |-> res.msg]>>]

\* handle_errors: the value returned and the calls made to log_errors
handle_errors(index, res, default) ==
    IF res.ok
    THEN [value |-> res.value, calls |-> <<>>]
    ELSE [value |-> default,
          calls |-> <<[index |-> index, byte_offset |-> index * SERVER_SIZE, msg |-> res.msg]>>]

\* Parser::len taking a record to be padded to 8 bytes
Parser_len_padded(body) == Len(body) \div (SERVER_SIZE + 2)

\* Parser::len, on the wrapped slice self.0
Parser_len(body) == Len(body) \div SERVER_SIZE

\* Parser::is_empty
Parser_is_empty(body) == Parser_len(body) = 0

\* Parser::get reporting an out-of-range index to log_errors
Parser_get_reporting_range(body, i, default) ==
    IF i >= Len(body) \div SERVER_SIZE
    THEN [value |-> default,
          calls |-> <<[index |-> i, byte_offset |-> i * SERVER_SIZE, msg |-> "Index out of range"]>>]
    ELSE handle_errors(i, ServerStatus_try_from(SubSeq(body, i * SERVER_SIZE + 1,
                                                       i * SERVER_SIZE + SERVER_SIZE)), default)

\* Parser::get: the value returned and the calls made to log_errors
Parser_get(body, i, default) ==
    IF i >= Parser_len(body)
    THEN [value |-> default, calls |-> <<>>]
    ELSE LET lower == i * SERVER_SIZE
             upper == lower + SERVER_SIZE
         IN handle_errors(i, ServerStatus_try_from(SubSeq(body, lower + 1, upper)), default)

\* Parser::iter passing every chunk through validate_server, with the default
\* status in place of a rejected record
Parser_iter_validating(body) ==
    [n \in 1..(Len(body) \div SERVER_SIZE) |->
        LET r == ServerStatus_try_from(SubSeq(body, (n - 1) * SERVER_SIZE + 1, n * SERVER_SIZE))
        IN IF r.ok THEN r.value ELSE ServerStatus_default]

\* Parser::iter: chunks_exact(SERVER_SIZE) mapped through ServerStatus::from
Parser_iter(body) ==
    [n \in 1..(Len(body) \div SERVER_SIZE) |->
        ServerStatus_from(SubSeq(body, (n - 1) * SERVER_SIZE + 1, n * SERVER_SIZE))]

\* Parser::try_from testing the body length before the magic number
Parser_try_from_length_first(value) ==
    IF Len(value) < 4
    THEN [ok |-> FALSE, body |-> <<>>, msg |-> "Failed to read first 4 bytes in magic number"]
    ELSE IF ((Len(value) - 4) % SERVER_SIZE) # 0
    THEN [ok |-> FALSE, body |-> <<>>, msg |-> "Status file is corrupt"]
    ELSE IF SubSeq(value, 1, 4) # VERSION_HEADER
    THEN [ok |-> FALSE, body |-> <<>>, msg |-> "Invalid magic number"]
    ELSE [ok |-> TRUE, body |-> SubSeqFrom(value, 5), msg |-> ""]

\* impl TryFrom<&[u8]> for Parser
Parser_try_from(value) ==
    IF Len(value) < 4
    THEN [ok |-> FALSE, body |-> <<>>, msg |-> "Failed to read first 4 bytes in magic number"]
    ELSE IF SubSeq(value, 1, 4) # VERSION_HEADER
    THEN [ok |-> FALSE, body |-> <<>>, msg |-> "Invalid magic number"]
    ELSE IF ((Len(value) - 4) % SERVER_SIZE) # 0
    THEN [ok |-> FALSE, body |-> <<>>, msg |-> "Status file is corrupt"]
    ELSE [ok |-> TRUE, body |-> SubSeqFrom(value, 5), msg |-> ""]

-----------------------------------------------------------------------------
(* coord.rs *)

\* R * pi / 180 for one tenth of a degree, in metres
MetresPerDeciDegree == (RADIUS_OF_THE_EARTH * 31416) \div 18000

\* an f64 distance: NaN, or a number of metres
F64NaN == [nan |-> TRUE, v |-> 0]

F64(v) == [nan |-> FALSE, v |-> v]

\* a + b on f64
F64Add(a, b) == IF a.nan \/ b.nan THEN F64NaN ELSE F64(a.v + b.v)

\* f64::max(x, d) for a number x: a NaN operand is ignored
F64MaxWith(x, d) == IF d.nan THEN x ELSE Max(x, d.v)

\* the two coordinates name one point, the second one reached over the pole:
\* lat_to = 180 - lat_from and the longitudes are 180 degrees apart
OverThePole(a, b) ==
    /\ a.latitude + b.latitude = 1800
    /\ Abs(b.longitude - a.longitude) = 1800

\* the argument of sqrt in distance_from,
\*   sq(sin(lat_delta / 2)) + cos(lat_from) * cos(lat_to) * sq(sin(lon_delta / 2)),
\* is negative as an f64.  Its second term is negative when exactly one
\* latitude lies beyond a pole, and for one point named twice over the pole
\* the two terms cancel in exact arithmetic, so the rounding of sin and cos
\* decides the sign.  In IEEE-754 double arithmetic the sum is
\* -1.1102230246251565e-16 for latitudes 45.0 and 135.0,
\* -5.551115123125783e-17 for 49.0 and 131.0, and 0.0 for 60.0 and 120.0.
haversine_is_negative(a, b) ==
    /\ OverThePole(a, b)
    /\ {a.latitude, b.latitude} \in {{450, 1350}, {490, 1310}}

\* Coord::distance_from, in metres, for coordinates in tenths of a degree.
\* sqrt of a negative argument is NaN, and so is the distance.  For two
\* points on one meridian the haversine angle 2*asin(sqrt(sin^2(dlat/2))) is
\* |dlat|; for two points on the equator it is the shorter arc of |dlon|; for
\* one point named twice over the pole it is 0.  The model's locations are of
\* these kinds.
distance_from(a, b) ==
    LET lat_delta == b.latitude - a.latitude
        lon_delta == b.longitude - a.longitude
    IN IF haversine_is_negative(a, b) THEN F64NaN
       ELSE IF OverThePole(a, b) THEN F64(0)
       ELSE IF lon_delta = 0
       THEN F64(MetresPerDeciDegree * Abs(lat_delta))
       ELSE F64(MetresPerDeciDegree * Min(Abs(lon_delta), 3600 - Abs(lon_delta)))

-----------------------------------------------------------------------------
(* compute_score.rs *)

\* `status.partial_score as f64`, in score units (rounded down); NaN is kept.
\* value = (2^23 + mant) * 2^(exp - 150).  Magnitudes of 2.0 and above are
\* rejected by validate_server before any conversion and are given as 2.0.
f32_as_f64(f) ==
    IF F32IsNaN(f) THEN [nan |-> TRUE, v |-> 0]
    ELSE IF f.exp = 0 \/ 138 - f.exp > 30 THEN [nan |-> FALSE, v |-> 0]
    ELSE IF f.exp > 127 THEN [nan |-> FALSE, v |-> (1 - 2 * f.sign) * 2 * One]
    ELSE LET m == 8388608 + f.mant
             num == (m \div 4096) * One + (((m % 4096) * One) \div 4096)
         IN [nan |-> FALSE, v |-> (1 - 2 * f.sign) * (num \div Pow2(138 - f.exp))]

\* normalize: score in Mbps, result in score units
normalize(score) ==
    (SCORE_NORMALIZATION_FACTOR - score) * (One \div SCORE_NORMALIZATION_FACTOR)

\* compute_distance_between, in metres
compute_distance_between(a, b) == distance_from(a, b)

\* compute_travel_distance (feature "legacy" off), in metres
compute_travel_distance(server_exit_location, server_entry_location, client_position) ==
    F64Add(compute_distance_between(client_position, server_entry_location),
           compute_distance_between(server_entry_location, server_exit_location))

\* compute_distance_score keeping the entry-to-exit leg without a client position
compute_distance_score_exit_leg(server_exit_location, server_entry_location, client_position) ==
    LET distance_in_m ==
            IF client_position # <<>>
            THEN compute_travel_distance(server_exit_location, server_entry_location,
                                         client_position[1])
            ELSE compute_distance_between(server_entry_location, server_exit_location)
        proximity_based_bandwidth_estimate ==
            (BANDWITH_DISTANCE_FACTOR * 1000) \div F64MaxWith(1000, distance_in_m)
    IN normalize(proximity_based_bandwidth_estimate)

\* compute_distance_score; client_position is <<>> (None) or <<location>>
compute_distance_score(server_exit_location, server_entry_location, client_position) ==
    LET distance_in_m ==
            IF client_position # <<>>
            THEN compute_travel_distance(server_exit_location, server_entry_location,
                                         client_position[1])
            ELSE F64(0)
        proximity_based_bandwidth_estimate ==
            (BANDWITH_DISTANCE_FACTOR * 1000) \div F64MaxWith(1000, distance_in_m)
    IN normalize(proximity_based_bandwidth_estimate)

\* compute_penalty adding 1000 only when both bits are clear
compute_penalty_both_bits(status_penalty, status_cost, norm_bandwidth, client_country, server_country, server_status) ==
    LET is_in_same_country ==
            IF client_country # <<>> THEN client_country[1] = server_country ELSE TRUE
        server_disabled == ~BitSet(server_status, STATUS_ENABLED)
        server_hidden == ~BitSet(server_status, STATUS_VISIBLE)
        p1 == IF server_disabled /\ server_hidden THEN 1000 * One ELSE 0
        p2 == IF (~is_in_same_country)
                   \/ (~norm_bandwidth.nan /\ norm_bandwidth.v >= PARTIAL_SCORE_CEILING)
              THEN One ELSE 0
        p3 == IF (~is_in_same_country) /\ status_cost = 1 THEN 3 * One ELSE 0
    IN status_penalty + p1 + p2 + p3

\* compute_penalty charging the cost in the user's own country too
compute_penalty_cost_everywhere(status_penalty, status_cost, norm_bandwidth, client_country, server_country, server_status) ==
    LET is_in_same_country ==
            IF client_country # <<>> THEN client_country[1] = server_country ELSE TRUE
        server_disabled == ~BitSet(server_status, STATUS_ENABLED)
        server_hidden == ~BitSet(server_status, STATUS_VISIBLE)
        p1 == IF server_disabled \/ server_hidden THEN 1000 * One ELSE 0
        p2 == IF (~is_in_same_country)
                   \/ (~norm_bandwidth.nan /\ norm_bandwidth.v >= PARTIAL_SCORE_CEILING)
              THEN One ELSE 0
        p3 == IF status_cost = 1 THEN 3 * One ELSE 0
    IN status_penalty + p1 + p2 + p3

\* compute_penalty charging every non-zero cost
compute_penalty_cost_any(status_penalty, status_cost, norm_bandwidth, client_country, server_country, server_status) ==
    LET is_in_same_country ==
            IF client_country # <<>> THEN client_country[1] = server_country ELSE TRUE
        server_disabled == ~BitSet(server_status, STATUS_ENABLED)
        server_hidden == ~BitSet(server_status, STATUS_VISIBLE)
        p1 == IF server_disabled \/ server_hidden THEN 1000 * One ELSE 0
        p2 == IF (~is_in_same_country)
                   \/ (~norm_bandwidth.nan /\ norm_bandwidth.v >= PARTIAL_SCORE_CEILING)
              THEN One ELSE 0
        p3 == IF (~is_in_same_country) /\ status_cost # 0 THEN 3 * One ELSE 0
    IN status_penalty + p1 + p2 + p3

\* compute_penalty adding 1.0 for a disabled or hidden server
compute_penalty_one(status_penalty, status_cost, norm_bandwidth, client_country, server_country, server_status) ==
    LET is_in_same_country ==
            IF client_country # <<>> THEN client_country[1] = server_country ELSE TRUE
        server_disabled == ~BitSet(server_status, STATUS_ENABLED)
        server_hidden == ~BitSet(server_status, STATUS_VISIBLE)
        p1 == IF server_disabled \/ server_hidden THEN One ELSE 0
        p2 == IF (~is_in_same_country)
                   \/ (~norm_bandwidth.nan /\ norm_bandwidth.v >= PARTIAL_SCORE_CEILING)
              THEN One ELSE 0
        p3 == IF (~is_in_same_country) /\ status_cost = 1 THEN 3 * One ELSE 0
    IN status_penalty + p1 + p2 + p3

\* compute_penalty taking a status with an unknown bit for a disabled server
compute_penalty_unknown_bits(status_penalty, status_cost, norm_bandwidth, client_country, server_country, server_status) ==
    LET is_in_same_country ==
            IF client_country # <<>> THEN client_country[1] = server_country ELSE TRUE
        server_disabled == ~BitSet(server_status, STATUS_ENABLED) \/ server_status >= 8
        server_hidden == ~BitSet(server_status, STATUS_VISIBLE)
        p1 == IF server_disabled \/ server_hidden THEN 1000 * One ELSE 0
        p2 == IF (~is_in_same_country)
                   \/ (~norm_bandwidth.nan /\ norm_bandwidth.v >= PARTIAL_SCORE_CEILING)
              THEN One ELSE 0
        p3 == IF (~is_in_same_country) /\ status_cost = 1 THEN 3 * One ELSE 0
    IN status_penalty + p1 + p2 + p3

\* compute_penalty; client_country is <<>> (None) or <<country>>
compute_penalty(status_penalty, status_cost, norm_bandwidth, client_country, server_country, server_status) ==
    LET is_in_same_country ==
            IF client_country # <<>> THEN client_country[1] = server_country ELSE TRUE
        server_disabled == ~BitSet(server_status, STATUS_ENABLED)
        server_hidden == ~BitSet(server_status, STATUS_VISIBLE)
        p1 == IF server_disabled \/ server_hidden THEN 1000 * One ELSE 0
        p2 == IF (~is_in_same_country)
                   \/ (~norm_bandwidth.nan /\ norm_bandwidth.v >= PARTIAL_SCORE_CEILING)
              THEN One ELSE 0
        p3 == IF (~is_in_same_country) /\ status_cost = 1 THEN 3 * One ELSE 0
    IN status_penalty + p1 + p2 + p3

\* compute_score clamping after the penalty has been added
compute_score_clamped_last(server, user_loc, user_ctry) ==
    LET distance_score ==
            compute_distance_score(server.exit_location, server.entry_location, user_loc)
        capped_score ==
            IF server.partial_score.nan THEN distance_score
            ELSE Max(distance_score, server.partial_score.v)
        penalty == compute_penalty(server.status_penalty, server.status_cost,
                                   server.partial_score, user_ctry, server.country,
                                   server.status)
    IN Max(0, Min(One, capped_score + server.normalized_jitter + penalty))

\* compute_score; `server` carries the fields of ComputeScoreServerParams
compute_score(server, user_loc, user_ctry) ==
    LET distance_score ==
            compute_distance_score(server.exit_location, server.entry_location, user_loc)
        \* f64::max ignores a NaN operand
        capped_score ==
            IF server.partial_score.nan THEN distance_score
            ELSE Max(distance_score, server.partial_score.v)
        base_score == Max(0, Min(One, capped_score + server.normalized_jitter))
        penalty == compute_penalty(server.status_penalty, server.status_cost,
                                   server.partial_score, user_ctry, server.country,
                                   server.status)
    IN base_score + penalty

-----------------------------------------------------------------------------
(* jitter.rs *)

\* rng.random_range(-0.5..0.5), in hundredths
RandomRange == {-50, 49}

\* the generator without the centring of the range: random_range(-1.0..1.0)
JitterSamples_full_range(enabled) ==
    IF enabled
    THEN {(2 * r * NORMALIZED_JITTER_RANGE) \div 100 : r \in RandomRange}
    ELSE {0}

\* the values one call of the closure returned by jitter::generator can give
JitterSamples(enabled) ==
    IF enabled
    THEN {(r * NORMALIZED_JITTER_RANGE) \div 100 : r \in RandomRange}
    ELSE {0}

-----------------------------------------------------------------------------
(* Inputs *)

\* f32 bit patterns, little-endian
F32_ZERO == <<0, 0, 0, 0>>
F32_NEG_ZERO == <<0, 0, 0, 128>>
F32_HALF == <<0, 0, 0, 63>>
F32_0_99 == <<164, 112, 125, 63>>
F32_ONE == <<0, 0, 128, 63>>
F32_ONE_NEXT == <<1, 0, 128, 63>>
F32_HUNDRED == <<0, 0, 200, 66>>
F32_NEG_TINY == <<1, 0, 0, 128>>
F32_NAN == <<0, 0, 192, 127>>

\* make_server of the parser tests: the 6 bytes of one record
make_server(status, load, score_bytes) == <<status, load>> \o score_bytes

\* records used for compute_loads: statuses 0..3 valid, and invalid ones
LoadRecords ==
    {make_server(0, 0, F32_ZERO), make_server(1, 57, F32_HALF),
     make_server(2, 100, F32_ONE), make_server(3, 23, F32_0_99),
     make_server(1, 150, F32_ONE), make_server(3, 9, F32_HUNDRED)}

\* records used for the parser alone
ParserRecords ==
    {make_server(sl[1], sl[2], p) :
        sl \in {<<3, 100>>, <<5, 101>>},
        p \in {F32_ZERO, F32_HALF, F32_ONE, F32_ONE_NEXT, F32_NEG_TINY, F32_NAN}}

\* buffers Parser::try_from rejects for their length or their header
BrokenFiles(records) ==
    {<<>>, <<8>>, <<1, 0, 0>>, <<8, 7, 6, 5>>, <<8, 7, 6, 5, 4>>, <<0, 0, 0, 1>>,
     VERSION_HEADER \o <<0>>}
        \cup {<<1, 0, 0, 1>> \o r : r \in records}
        \cup {VERSION_HEADER \o r \o t : r \in records, t \in {<<0>>, <<3, 0, 0, 0, 0>>}}

\* the broken buffers, and the header followed by up to MaxRecords records
StatusFiles(records) ==
    BrokenFiles(records)
        \cup {VERSION_HEADER \o Flatten(rs) : rs \in SeqsUpTo(records, MaxRecords)}

\* tenths of a degree; all on the meridian 2.0 E
Paris == [latitude |-> 489, longitude |-> 20]
Toulouse == [latitude |-> 436, longitude |-> 20]
Nearby == [latitude |-> 488, longitude |-> 20]

FR == <<70, 82>>
CH == <<67, 72>>

\* logical.rs: Logical and StatusReference
Logical(index, penalty, cost, entry, exit, country) ==
    [status_reference |-> [index |-> index, penalty |-> penalty, cost |-> cost],
     entry_location |-> entry, exit_location |-> exit, exit_country |-> country]

\* a server for every status index up to one past the last record, and a
\* second server, with other metadata, for index 0
Logicals ==
    {Logical(i, 0, 0, Paris, Paris, FR) : i \in 0..MaxRecords}
        \cup {Logical(0, One \div 4, 1, Toulouse, Nearby, CH)}

\* load.rs: Load
Load(e, v, a, l, s) ==
    [is_enabled |-> e, is_visible |-> v, is_autoconnectable |-> a, load |-> l, score |-> s]

Load_default == Load(FALSE, FALSE, FALSE, 0, 0)

StaleLoad == Load(TRUE, TRUE, TRUE, 77, 123)

\* user location, user country and the "jitter" feature of the build
Contexts ==
    {[location |-> <<>>, country |-> <<>>, jitter |-> FALSE],
     [location |-> <<Toulouse>>, country |-> <<FR>>, jitter |-> TRUE]}

NoResult == [kind |-> "none", msg |-> "", servers |-> 0, loads |-> 0]
OkResult == [kind |-> "Ok", msg |-> "", servers |-> 0, loads |-> 0]
ParserError(m) == [kind |-> "ParserError", msg |-> m, servers |-> 0, loads |-> 0]
LengthsNotConsistent(s, l) == [kind |-> "LengthsNotConsistent", msg |-> "", servers |-> s, loads |-> l]

NoParser == [ok |-> FALSE, body |-> <<>>, msg |-> ""]

-----------------------------------------------------------------------------
(* compute_loads.rs *)

\* report_parsing_error without the error_reported test
report_parsing_error_every_time(reported, warns, calls) ==
    [error_reported |-> reported \/ calls # <<>>, warnings |-> warns \o calls]

\* the closure report_parsing_error applied to the calls one get made
report_parsing_error(reported, warns, calls) ==
    IF calls # <<>> /\ ~reported
    THEN [error_reported |-> TRUE, warnings |-> Append(warns, calls[1])]
    ELSE [error_reported |-> reported, warnings |-> warns]

\* the loop body with the enabled and visible masks exchanged
LoadOf_masks_exchanged(status, score) ==
    Load(BitSet(status.status, STATUS_VISIBLE),
         BitSet(status.status, STATUS_ENABLED),
         BitSet(status.status, STATUS_AUTOCONNECTABLE),
         status.load,
         score)

\* the fields written into one Load by the loop body
LoadOf(status, score) ==
    Load(BitSet(status.status, STATUS_ENABLED),
         BitSet(status.status, STATUS_VISIBLE),
         BitSet(status.status, STATUS_AUTOCONNECTABLE),
         status.load,
         score)

\* the score of one server, as the loop body calls compute_score
ScoreOf(logical, status, jitter, user_loc, user_ctry) ==
    compute_score([status_penalty |-> logical.status_reference.penalty,
                   status_cost |-> logical.status_reference.cost,
                   country |-> logical.exit_country,
                   partial_score |-> f32_as_f64(status.partial_score),
                   status |-> status.status,
                   exit_location |-> logical.exit_location,
                   entry_location |-> logical.entry_location,
                   normalized_jitter |-> jitter],
                  user_loc, user_ctry)

\* one call of Parser::get: its arguments, the value returned and the calls
\* it made to log_errors
GetCall(i, default, g) == [index |-> i, default |-> default, value |-> g.value, calls |-> g.calls]

\* a loop that never advances its output position
ZipIndex_stuck(n) == 1

\* the position of the zip at which the pair (load, logical) is taken
ZipIndex(n) == n + 1

Init ==
    /\ logicals \in SeqsUpTo(Logicals, MaxServers)
    /\ \E n \in 0..MaxServers : loads = [i \in 1..n |-> StaleLoad]
    /\ status_file \in StatusFiles(LoadRecords)
    /\ \E c \in Contexts :
          /\ user_location = c.location
          /\ user_country = c.country
          /\ jitter_enabled = c.jitter
    /\ pc = "try_from"
    /\ statuses = NoParser
    /\ result = NoResult
    /\ k = 0
    /\ error_reported = FALSE
    /\ warnings = <<>>
    /\ sink_calls = <<>>
    /\ lookups = <<>>
    /\ jitters = <<>>
    /\ loads0 = loads
    /\ call = <<>>
    /\ ret = <<>>

\* compute_loads testing the lengths before it parses the status file
TryFrom_after_lengths ==
    /\ pc = "try_from"
    /\ LET r == Parser_try_from(status_file)
       IN /\ statuses' = r
          /\ IF Len(loads) # Len(logicals)
             THEN pc' = "returned" /\ result' = LengthsNotConsistent(Len(logicals), Len(loads))
             ELSE IF r.ok
             THEN pc' = "check_lengths" /\ UNCHANGED result
             ELSE pc' = "returned" /\ result' = ParserError(r.msg)
    /\ UNCHANGED <<loads, logicals, status_file, user_location, user_country,
                   jitter_enabled, k, error_reported, warnings, sink_calls,
                   lookups, jitters, loads0, call, ret>>

\* line 27: let statuses = Parser::try_from(status_file)?;
TryFrom ==
    /\ pc = "try_from"
    /\ LET r == Parser_try_from(status_file)
       IN /\ statuses' = r
          /\ IF r.ok
             THEN pc' = "check_lengths" /\ UNCHANGED result
             ELSE pc' = "returned" /\ result' = ParserError(r.msg)
    /\ UNCHANGED <<loads, logicals, status_file, user_location, user_country,
                   jitter_enabled, k, error_reported, warnings, sink_calls,
                   lookups, jitters, loads0, call, ret>>

\* the length check with the two lengths exchanged in the error
CheckLengths_exchanged ==
    /\ pc = "check_lengths"
    /\ IF Len(loads) # Len(logicals)
       THEN pc' = "returned" /\ result' = LengthsNotConsistent(Len(loads), Len(logicals))
       ELSE pc' = "loop" /\ UNCHANGED result
    /\ error_reported' = FALSE
    /\ UNCHANGED <<loads, logicals, status_file, user_location, user_country,
                   jitter_enabled, statuses, k, warnings, sink_calls,
                   lookups, jitters, loads0, call, ret>>

\* the length check made after the output has been reset
CheckLengths_after_reset ==
    /\ pc = "check_lengths"
    /\ loads' = [i \in 1..Len(loads) |-> Load_default]
    /\ IF Len(loads) # Len(logicals)
       THEN pc' = "returned" /\ result' = LengthsNotConsistent(Len(logicals), Len(loads))
       ELSE pc' = "loop" /\ UNCHANGED result
    /\ error_reported' = FALSE
    /\ UNCHANGED <<logicals, status_file, user_location, user_country,
                   jitter_enabled, statuses, k, warnings, sink_calls,
                   lookups, jitters, loads0, call, ret>>

\* the length check with the closure state kept in a static, set up once
CheckLengths_static_flag ==
    /\ pc = "check_lengths"
    /\ IF Len(loads) # Len(logicals)
       THEN pc' = "returned" /\ result' = LengthsNotConsistent(Len(logicals), Len(loads))
       ELSE pc' = "loop" /\ UNCHANGED result
    /\ UNCHANGED <<loads, logicals, status_file, user_location, user_country,
                   jitter_enabled, statuses, k, error_reported, warnings,
                   sink_calls, lookups, jitters, loads0, call, ret>>

\* lines 29-38: the length check; lines 40-55 set up the jitter generator,
\* the closure state and the default status
CheckLengths ==
    /\ pc = "check_lengths"
    /\ IF Len(loads) # Len(logicals)
       THEN pc' = "returned" /\ result' = LengthsNotConsistent(Len(logicals), Len(loads))
       ELSE pc' = "loop" /\ UNCHANGED result
    /\ error_reported' = FALSE
    /\ UNCHANGED <<loads, logicals, status_file, user_location, user_country,
                   jitter_enabled, statuses, k, warnings, sink_calls,
                   lookups, jitters, loads0, call, ret>>

\* one iteration that leaves is_autoconnectable as it finds it
LoopBody_keeps_autoconnectable ==
    /\ pc = "loop"
    /\ k < Min(Len(loads), Len(logicals))
    /\ LET logical == logicals[ZipIndex(k)]
           g == Parser_get(statuses.body, logical.status_reference.index, ServerStatus_default)
           rep == report_parsing_error(error_reported, warnings, g.calls)
       IN /\ lookups' = Append(lookups, GetCall(logical.status_reference.index,
                                                ServerStatus_default, g))
          /\ sink_calls' = sink_calls \o g.calls
          /\ error_reported' = rep.error_reported
          /\ warnings' = rep.warnings
          /\ \E j \in JitterSamples(jitter_enabled) :
                /\ jitters' = Append(jitters, j)
                /\ loads' = [loads EXCEPT ![ZipIndex(k)] =
                                [LoadOf(g.value, ScoreOf(logical, g.value, j,
                                                         user_location, user_country))
                                    EXCEPT !.is_autoconnectable =
                                              loads[ZipIndex(k)].is_autoconnectable]]
    /\ k' = k + 1
    /\ UNCHANGED <<logicals, status_file, user_location, user_country,
                   jitter_enabled, pc, statuses, result, loads0, call, ret>>

\* lines 56-87: one iteration of the zip over (loads, logicals)
LoopBody ==
    /\ pc = "loop"
    /\ k < Min(Len(loads), Len(logicals))
    /\ LET logical == logicals[ZipIndex(k)]
           g == Parser_get(statuses.body, logical.status_reference.index, ServerStatus_default)
           rep == report_parsing_error(error_reported, warnings, g.calls)
       IN /\ lookups' = Append(lookups, GetCall(logical.status_reference.index,
                                                ServerStatus_default, g))
          /\ sink_calls' = sink_calls \o g.calls
          /\ error_reported' = rep.error_reported
          /\ warnings' = rep.warnings
          /\ \E j \in JitterSamples(jitter_enabled) :
                /\ jitters' = Append(jitters, j)
                /\ loads' = [loads EXCEPT ![ZipIndex(k)] =
                                LoadOf(g.value, ScoreOf(logical, g.value, j,
                                                        user_location, user_country))]
    /\ k' = k + 1
    /\ UNCHANGED <<logicals, status_file, user_location, user_country,
                   jitter_enabled, pc, statuses, result, loads0, call, ret>>

\* line 89: Ok(())
ReturnOk ==
    /\ pc = "loop"
    /\ k = Min(Len(loads), Len(logicals))
    /\ pc' = "returned"
    /\ result' = OkResult
    /\ UNCHANGED <<loads, logicals, status_file, user_location, user_country,
                   jitter_enabled, statuses, k, error_reported, warnings,
                   sink_calls, lookups, jitters, loads0, call, ret>>

Next == TryFrom \/ CheckLengths \/ LoopBody \/ ReturnOk

Spec == Init /\ [][Next]_vars

-----------------------------------------------------------------------------
(* The parser on its own: Parser::try_from, then calls of Parser::get with a *)
(* callback that records every invocation, as in the tests of parser.rs     *)

Defaults ==
    {ServerStatus_default,
     [status |-> 5, load |-> 9, partial_score |-> f32_from_le_bytes(0, 0, 0, 63)]}

InitParser ==
    /\ status_file \in StatusFiles(ParserRecords)
    /\ pc = "p_try_from"
    /\ logicals = <<>>
    /\ loads = <<>>
    /\ user_location = <<>>
    /\ user_country = <<>>
    /\ jitter_enabled = FALSE
    /\ statuses = NoParser
    /\ result = NoResult
    /\ k = 0
    /\ error_reported = FALSE
    /\ warnings = <<>>
    /\ sink_calls = <<>>
    /\ lookups = <<>>
    /\ jitters = <<>>
    /\ loads0 = <<>>
    /\ call = <<>>
    /\ ret = <<>>

\* Parser::try_from(&status_file[..])
PTryFrom ==
    /\ pc = "p_try_from"
    /\ statuses' = Parser_try_from(status_file)
    /\ pc' = IF statuses'.ok THEN "p_get" ELSE "p_failed"
    /\ UNCHANGED <<loads, logicals, status_file, user_location, user_country,
                   jitter_enabled, result, k, error_reported, warnings,
                   sink_calls, lookups, jitters, loads0, call, ret>>

\* status.get(i, &default, &mut handle_errors)
PGet ==
    /\ pc = "p_get"
    /\ Len(lookups) < MaxGets
    /\ \E i \in 0..MaxRecords, default \in Defaults :
          LET g == Parser_get(statuses.body, i, default)
          IN /\ lookups' = Append(lookups, GetCall(i, default, g))
             /\ sink_calls' = sink_calls \o g.calls
    /\ UNCHANGED <<loads, logicals, status_file, user_location, user_country,
                   jitter_enabled, pc, statuses, result, k, error_reported,
                   warnings, jitters, loads0, call, ret>>

NextParser == PTryFrom \/ PGet

SpecParser == InitParser /\ [][NextParser]_vars

\* status.iter().collect(): one full pass over a new iterator
PIter ==
    /\ pc = "p_get"
    /\ Len(ret) < MaxIters
    /\ ret' = Append(ret, Parser_iter(statuses.body))
    /\ UNCHANGED <<loads, logicals, status_file, user_location, user_country,
                   jitter_enabled, pc, statuses, result, k, error_reported,
                   warnings, sink_calls, lookups, jitters, loads0, call>>

NextIter == PTryFrom \/ PIter

\* Parser::try_from, then passes of Parser::iter
SpecIter == InitParser /\ [][NextIter]_vars

-----------------------------------------------------------------------------
(* Encoding then decoding: a ServerStatus is written as one record of a      *)
(* status file by make_server and make_status_file and read back by          *)
(* Parser::get, as in test_simple_valid_status_file                          *)

\* f32::to_le_bytes: the four bytes of the IEEE-754 binary32 fields
f32_to_le_bytes(f) ==
    <<f.mant % 256,
      (f.mant \div 256) % 256,
      (f.exp % 2) * 128 + (f.mant \div 65536),
      f.sign * 128 + (f.exp \div 2)>>

\* make_server applied to a ServerStatus value
make_server_status(server_status) ==
    make_server(server_status.status, server_status.load,
                f32_to_le_bytes(server_status.partial_score))

\* make_status_file: the header followed by the records
make_status_file(servers) == VERSION_HEADER \o Flatten(servers)

\* partial scores: 0.0, -0.0, the smallest subnormal, 0.5, 0.99, the largest
\* value below 1.0, 1.0, the value after 1.0, a negative value and NaN
CodecScores ==
    {f32_from_le_bytes(b[1], b[2], b[3], b[4]) :
        b \in {F32_ZERO, F32_NEG_ZERO, <<1, 0, 0, 0>>, F32_HALF, F32_0_99,
               <<255, 255, 127, 63>>, F32_ONE, F32_ONE_NEXT, F32_NEG_TINY, F32_NAN}}

CodecLoads == {0, 57, 100, 101, 255}

\* the record that fills the other positions of the file
CodecFiller == [status |-> 5, load |-> 9, partial_score |-> f32_from_le_bytes(0, 0, 0, 63)]

InitCodec ==
    /\ \E status \in 0..255, load \in CodecLoads, partial_score \in CodecScores,
          n \in 1..MaxRecords :
          \E i \in 0..(n - 1) :
             call = [fn |-> "get",
                     server |-> [status |-> status, load |-> load,
                                 partial_score |-> partial_score],
                     index |-> i, count |-> n]
    /\ ret = <<>>
    /\ pc = "c_encode"
    /\ status_file = <<>>
    /\ logicals = <<>>
    /\ loads = <<>>
    /\ user_location = <<>>
    /\ user_country = <<>>
    /\ jitter_enabled = FALSE
    /\ statuses = NoParser
    /\ result = NoResult
    /\ k = 0
    /\ error_reported = FALSE
    /\ warnings = <<>>
    /\ sink_calls = <<>>
    /\ lookups = <<>>
    /\ jitters = <<>>
    /\ loads0 = <<>>

\* make_status_file(&[make_server(..), ..]) with the server at call.index
CEncode ==
    /\ pc = "c_encode"
    /\ status_file' = make_status_file(
            [j \in 1..call.count |->
                IF j = call.index + 1 THEN make_server_status(call.server)
                ELSE make_server_status(CodecFiller)])
    /\ pc' = "c_decode"
    /\ UNCHANGED <<loads, logicals, user_location, user_country, jitter_enabled,
                   statuses, result, k, error_reported, warnings, sink_calls,
                   lookups, jitters, loads0, call, ret>>

\* Parser::try_from(&file[..]).expect(..), then get(index, &default, &mut errors)
CDecode ==
    /\ pc = "c_decode"
    /\ statuses' = Parser_try_from(status_file)
    /\ IF statuses'.ok
       THEN LET g == Parser_get(statuses'.body, call.index, ServerStatus_default)
            IN /\ ret' = g
               /\ sink_calls' = sink_calls \o g.calls
               /\ pc' = "c_done"
       ELSE /\ pc' = "c_panic"
            /\ UNCHANGED <<ret, sink_calls>>
    /\ UNCHANGED <<loads, logicals, status_file, user_location, user_country,
                   jitter_enabled, result, k, error_reported, warnings,
                   lookups, jitters, loads0, call>>

NextCodec == CEncode \/ CDecode

SpecCodec == InitCodec /\ [][NextCodec]_vars

-----------------------------------------------------------------------------
(* The score functions on their own: compute_score, compute_penalty and      *)
(* compute_distance_score called with given arguments, as in the tests of    *)
(* compute_score.rs                                                          *)

\* the largest f32 below 0.99 (0.98999995)
F32_BELOW_0_99 == <<163, 112, 125, 63>>

\* partial scores as compute_loads passes them: `status.partial_score as f64`
ScorePartials ==
    {f32_as_f64(f32_from_le_bytes(b[1], b[2], b[3], b[4])) :
        b \in {F32_ZERO, F32_HALF, F32_BELOW_0_99, F32_0_99, F32_ONE, F32_NAN}}

\* StatusReference::penalty: -1.0, 0.0, 0.25 and 123.0
ScorePenalties == {-One, 0, One \div 4, 123 * One}

ScoreCosts == {0, 1, 2}

ScoreStatuses == {0, STATUS_ENABLED, STATUS_VISIBLE, STATUS_ENABLED + STATUS_VISIBLE, 253}

\* (exit location, entry location) of a server
ScoreRoutes == {<<Paris, Paris>>, <<Nearby, Nearby>>, <<Nearby, Toulouse>>}

\* every value the jitter generator can return, with and without the feature
ScoreJitters == JitterSamples(TRUE) \cup JitterSamples(FALSE)

\* ComputeScoreServerParams
ComputeScoreServerParams(status_penalty, status_cost, country, partial_score, status, route, jitter) ==
    [status_penalty |-> status_penalty,
     status_cost |-> status_cost,
     country |-> country,
     partial_score |-> partial_score,
     status |-> status,
     exit_location |-> route[1],
     entry_location |-> route[2],
     normalized_jitter |-> jitter]

ScoreServers ==
    {ComputeScoreServerParams(sp, c, ctry, ps, st, rt, j) :
        sp \in ScorePenalties, c \in ScoreCosts, ctry \in {FR, CH}, ps \in ScorePartials,
        st \in ScoreStatuses, rt \in ScoreRoutes, j \in ScoreJitters}

ScoreUserLocations == {<<>>, <<Toulouse>>, <<Paris>>}

ScoreUserCountries == {<<>>, <<FR>>, <<CH>>}

\* every variable of compute_loads and of the parser, unused by a lone call
Idle ==
    /\ status_file = <<>>
    /\ logicals = <<>>
    /\ loads = <<>>
    /\ user_location = <<>>
    /\ user_country = <<>>
    /\ jitter_enabled = FALSE
    /\ statuses = NoParser
    /\ result = NoResult
    /\ k = 0
    /\ error_reported = FALSE
    /\ warnings = <<>>
    /\ sink_calls = <<>>
    /\ lookups = <<>>
    /\ jitters = <<>>
    /\ loads0 = <<>>

InitScore ==
    /\ \E server \in ScoreServers, ul \in ScoreUserLocations, uc \in ScoreUserCountries :
          call = [server |-> server, user_location |-> ul, user_country |-> uc]
    /\ ret = <<>>
    /\ pc = "s_call"
    /\ Idle

\* compute_score(server, &user_location, &user_country)
CallComputeScore ==
    /\ pc = "s_call"
    /\ ret' = [fn |-> "compute_score",
               value |-> compute_score(call.server, call.user_location, call.user_country)]
    /\ pc' = "s_done"
    /\ UNCHANGED <<loads, logicals, status_file, user_location, user_country,
                   jitter_enabled, statuses, result, k, error_reported, warnings,
                   sink_calls, lookups, jitters, loads0, call>>

\* compute_penalty(penalty, cost, partial_score, &user_country, country, status)
CallComputePenalty ==
    /\ pc = "s_call"
    /\ ret' = [fn |-> "compute_penalty",
               value |-> compute_penalty(call.server.status_penalty, call.server.status_cost,
                                         call.server.partial_score, call.user_country,
                                         call.server.country, call.server.status)]
    /\ pc' = "s_done"
    /\ UNCHANGED <<loads, logicals, status_file, user_location, user_country,
                   jitter_enabled, statuses, result, k, error_reported, warnings,
                   sink_calls, lookups, jitters, loads0, call>>

\* compute_distance_score(exit_location, entry_location, &user_location)
CallComputeDistanceScore ==
    /\ pc = "s_call"
    /\ ret' = [fn |-> "compute_distance_score",
               value |-> compute_distance_score(call.server.exit_location,
                                                call.server.entry_location,
                                                call.user_location)]
    /\ pc' = "s_done"
    /\ UNCHANGED <<loads, logicals, status_file, user_location, user_country,
                   jitter_enabled, statuses, result, k, error_reported, warnings,
                   sink_calls, lookups, jitters, loads0, call>>

NextScore == CallComputeScore \/ CallComputePenalty \/ CallComputeDistanceScore

SpecScore == InitScore /\ [][NextScore]_vars

-----------------------------------------------------------------------------
(* Two servers scored for one user, as two iterations of the loop of         *)
(* compute_loads do: the same user location and country, one jitter sample   *)
(* each                                                                      *)

\* StatusReference::penalty: -1.0, 0.0 and 2000.0
RankPenalties == {-One, 0, 2000 * One}

RankServers ==
    {ComputeScoreServerParams(sp, c, ctry, ps, st, <<Paris, Paris>>, j) :
        sp \in RankPenalties, c \in {0, 1}, ctry \in {FR, CH},
        ps \in {f32_as_f64(f32_from_le_bytes(b[1], b[2], b[3], b[4])) : b \in {F32_ZERO, F32_ONE}},
        st \in {0, STATUS_ENABLED, STATUS_VISIBLE, STATUS_ENABLED + STATUS_VISIBLE},
        j \in JitterSamples(TRUE)}

InitRanking ==
    /\ \E a \in RankServers, b \in RankServers,
          ul \in {<<>>, <<Toulouse>>}, uc \in {<<>>, <<FR>>} :
          call = [a |-> a, b |-> b, user_location |-> ul, user_country |-> uc]
    /\ ret = <<>>
    /\ pc = "r_call"
    /\ Idle

\* compute_score for each of the two servers
ScorePair ==
    /\ pc = "r_call"
    /\ ret' = [fn |-> "compute_score",
               value |-> <<compute_score(call.a, call.user_location, call.user_country),
                           compute_score(call.b, call.user_location, call.user_country)>>]
    /\ pc' = "r_done"
    /\ UNCHANGED <<loads, logicals, status_file, user_location, user_country,
                   jitter_enabled, statuses, result, k, error_reported, warnings,
                   sink_calls, lookups, jitters, loads0, call>>

NextRanking == ScorePair

SpecRanking == InitRanking /\ [][NextRanking]_vars

-----------------------------------------------------------------------------
(* country_code.rs and country.rs.  A conversion returns the record          *)
(* [ok, value, err]: Ok(value) or Err(err).                                   *)

\* u8::is_ascii
is_ascii(c) == c < 128

\* u8::is_ascii_uppercase
is_ascii_uppercase(c) == 65 <= c /\ c <= 90

\* u8::is_ascii_lowercase
is_ascii_lowercase(c) == 97 <= c /\ c <= 122

\* u8::to_ascii_uppercase
to_ascii_uppercase(c) == IF is_ascii_lowercase(c) THEN c - 32 ELSE c

CountryOk(value) == [ok |-> TRUE, value |-> value, err |-> ""]

CountryErr(err) == [ok |-> FALSE, value |-> <<>>, err |-> err]

\* impl TryFrom<&[u8; 2]> for CountryCode
CountryCode_try_from(value) ==
    IF \E n \in 1..2 : ~is_ascii(value[n])
    THEN CountryErr("InvalidFormat")
    ELSE CountryOk(<<to_ascii_uppercase(value[1]), to_ascii_uppercase(value[2])>>)

\* impl TryFrom<&str> for CountryCode (and TryFrom<String>)
CountryCode_try_from_str(value) ==
    IF Len(value) # 2 THEN CountryErr("InvalidLength") ELSE CountryCode_try_from(value)

\* #[derive(Default)] on CountryCode([u8; 2])
CountryCode_default == <<0, 0>>

\* Country::try_from accepting lowercase letters too
Country_try_from_any_case(value) ==
    IF ~(/\ (is_ascii_uppercase(value[1]) \/ is_ascii_lowercase(value[1]))
         /\ (is_ascii_uppercase(value[2]) \/ is_ascii_lowercase(value[2])))
    THEN CountryErr("InvalidFormat")
    ELSE CountryOk(value)

\* impl TryFrom<&[u8; 2]> for Country
Country_try_from(value) ==
    IF ~(is_ascii_uppercase(value[1]) /\ is_ascii_uppercase(value[2]))
    THEN CountryErr("InvalidFormat")
    ELSE CountryOk(value)

\* impl TryFrom<&str> for Country
Country_try_from_str(value) ==
    IF Len(value) # 2 THEN CountryErr("InvalidLength") ELSE Country_try_from(value)

\* ASCII characters: NUL, space, '1', '@', 'A', 'N', 'Z', '[', '`', 'a', 'n',
\* 'z', '{' and DEL
AsciiChars == {0, 32, 49, 64, 65, 78, 90, 91, 96, 97, 110, 122, 123, 127}

\* the characters of a &str as UTF-8: the ASCII ones and e-acute (C3 A9)
Utf8Chars == {<<c>> : c \in AsciiChars} \cup {<<195, 169>>}

\* strings of up to MaxCountryChars characters, as bytes
CountryStrings == {Flatten(cs) : cs \in SeqsUpTo(Utf8Chars, MaxCountryChars)}

\* the values of a [u8; 2]
CountryArrays == [1..2 -> AsciiChars \cup {128, 169, 195, 255}]

InitCountry ==
    /\ call \in [value : CountryStrings \cup CountryArrays]
    /\ ret = <<>>
    /\ pc = "cc_call"
    /\ Idle

\* what a call of the country types returned
CountryReturn(fn, r) == [fn |-> fn, ok |-> r.ok, value |-> r.value, err |-> r.err]

\* CountryCode::try_from(&[u8; 2])
CallCountryCodeTryFrom ==
    /\ pc = "cc_call"
    /\ call.value \in CountryArrays
    /\ ret' = CountryReturn("CountryCode_try_from", CountryCode_try_from(call.value))
    /\ pc' = "cc_done"
    /\ UNCHANGED <<loads, logicals, status_file, user_location, user_country,
                   jitter_enabled, statuses, result, k, error_reported, warnings,
                   sink_calls, lookups, jitters, loads0, call>>

\* CountryCode::try_from(&str)
CallCountryCodeTryFromStr ==
    /\ pc = "cc_call"
    /\ call.value \in CountryStrings
    /\ ret' = CountryReturn("CountryCode_try_from_str", CountryCode_try_from_str(call.value))
    /\ pc' = "cc_done"
    /\ UNCHANGED <<loads, logicals, status_file, user_location, user_country,
                   jitter_enabled, statuses, result, k, error_reported, warnings,
                   sink_calls, lookups, jitters, loads0, call>>

\* Logical::default(): exit_country is CountryCode::default()
CallLogicalDefault ==
    /\ pc = "cc_call"
    /\ ret' = CountryReturn("Logical_default", CountryOk(CountryCode_default))
    /\ pc' = "cc_done"
    /\ UNCHANGED <<loads, logicals, status_file, user_location, user_country,
                   jitter_enabled, statuses, result, k, error_reported, warnings,
                   sink_calls, lookups, jitters, loads0, call>>

\* Country::try_from(&[u8; 2])
CallCountryTryFrom ==
    /\ pc = "cc_call"
    /\ call.value \in CountryArrays
    /\ ret' = CountryReturn("Country_try_from", Country_try_from(call.value))
    /\ pc' = "cc_done"
    /\ UNCHANGED <<loads, logicals, status_file, user_location, user_country,
                   jitter_enabled, statuses, result, k, error_reported, warnings,
                   sink_calls, lookups, jitters, loads0, call>>

\* Country::try_from(&str)
CallCountryTryFromStr ==
    /\ pc = "cc_call"
    /\ call.value \in CountryStrings
    /\ ret' = CountryReturn("Country_try_from_str", Country_try_from_str(call.value))
    /\ pc' = "cc_done"
    /\ UNCHANGED <<loads, logicals, status_file, user_location, user_country,
                   jitter_enabled, statuses, result, k, error_reported, warnings,
                   sink_calls, lookups, jitters, loads0, call>>

\* compute_loads_cffi, lines 66-78: the user country is Country::try_from of
\* the two bytes behind a non-null user_country_ptr; on Err the function
\* returns -2 before compute_loads is called
CffiUserCountry ==
    /\ pc = "cc_call"
    /\ call.value \in CountryArrays
    /\ LET r == Country_try_from(call.value)
       IN /\ ret' = CountryReturn("compute_loads_cffi", r)
          /\ user_country' = IF r.ok THEN <<r.value>> ELSE user_country
    /\ pc' = "cc_done"
    /\ UNCHANGED <<loads, logicals, status_file, user_location,
                   jitter_enabled, statuses, result, k, error_reported, warnings,
                   sink_calls, lookups, jitters, loads0, call>>

\* compute_loads_uniffi: user_country is an Option<CountryCode>, which the
\* binding builds from the caller's string (custom_type!(CountryCode, String))
UniffiUserCountry ==
    /\ pc = "cc_call"
    /\ call.value \in CountryStrings
    /\ LET r == CountryCode_try_from_str(call.value)
       IN /\ ret' = CountryReturn("compute_loads_uniffi", r)
          /\ user_country' = IF r.ok THEN <<r.value>> ELSE user_country
    /\ pc' = "cc_done"
    /\ UNCHANGED <<loads, logicals, status_file, user_location,
                   jitter_enabled, statuses, result, k, error_reported, warnings,
                   sink_calls, lookups, jitters, loads0, call>>

NextCountry ==
    \/ CallCountryCodeTryFrom
    \/ CallCountryCodeTryFromStr
    \/ CallLogicalDefault
    \/ CallCountryTryFrom
    \/ CallCountryTryFromStr
    \/ CffiUserCountry
    \/ UniffiUserCountry

SpecCountry == InitCountry /\ [][NextCountry]_vars

-----------------------------------------------------------------------------
(* Coord::distance_from on its own, as in the tests of coord.rs               *)

\* coordinates in tenths of a degree: points of the equator, of the meridians
\* 0.0 and 2.0 E, and the points of these meridians named over the pole
CoordLocations ==
    {Paris, Toulouse, Nearby,
     [latitude |-> 0, longitude |-> 20], [latitude |-> 490, longitude |-> 20],
     [latitude |-> 1310, longitude |-> -1780],
     [latitude |-> 0, longitude |-> 0], [latitude |-> 450, longitude |-> 0],
     [latitude |-> 600, longitude |-> 0],
     [latitude |-> 0, longitude |-> 900],
     [latitude |-> 0, longitude |-> 1800], [latitude |-> 1350, longitude |-> 1800],
     [latitude |-> 1200, longitude |-> 1800]}

\* the pairs whose distance the model of distance_from gives
CoordPairs ==
    {p \in CoordLocations \X CoordLocations :
        \/ p[1].longitude = p[2].longitude
        \/ (p[1].latitude = 0 /\ p[2].latitude = 0)
        \/ OverThePole(p[1], p[2])}

InitCoord ==
    /\ \E p \in CoordPairs : call = [a |-> p[1], b |-> p[2]]
    /\ ret = <<>>
    /\ pc = "d_call"
    /\ Idle

\* a.distance_from(&b)
CallDistanceFrom ==
    /\ pc = "d_call"
    /\ ret' = [fn |-> "distance_from", value |-> distance_from(call.a, call.b)]
    /\ pc' = "d_done"
    /\ UNCHANGED <<loads, logicals, status_file, user_location, user_country,
                   jitter_enabled, statuses, result, k, error_reported, warnings,
                   sink_calls, lookups, jitters, loads0, call>>

NextCoord == CallDistanceFrom

SpecCoord == InitCoord /\ [][NextCoord]_vars

-----------------------------------------------------------------------------
(* bindings_cffi.rs: compute_loads_cffi.  `call` holds the pointer arguments, *)
(* `ret` the return code and the state of `*error`; the memory behind the     *)
(* metadata, status and output pointers is logicals, status_file and loads.   *)
(* An out-pointer is [ptr, msg]: ptr is FALSE for a null `error`, msg is <<>>  *)
(* for a null `*error` and <<text>> for a C string.                           *)

\* set_err(out_error, msg)
set_err(out_error, msg) ==
    IF ~out_error.ptr THEN out_error ELSE [ptr |-> TRUE, msg |-> <<msg>>]

\* Error::to_string()
Error_to_string(e) ==
    IF e.kind = "ParserError" THEN "failed to parse status file with error " \o e.msg
    ELSE "Length of Logicals and Loads are not the same."

CffiLogicals == {Logical(0, 0, 0, Paris, Paris, FR), Logical(1, One \div 4, 1, Toulouse, Nearby, CH)}

CffiFiles ==
    {<<8>>, VERSION_HEADER, VERSION_HEADER \o make_server(3, 23, F32_HALF),
     VERSION_HEADER \o make_server(1, 150, F32_ONE),
     VERSION_HEADER \o make_server(3, 23, F32_HALF) \o <<0>>}

\* a null user_country_ptr, "FR", "fr" and "1A"
CffiCountryPtrs == {<<>>, <<FR>>, <<<<102, 114>>>>, <<<<49, 65>>>>}

InitCffi ==
    /\ logicals \in SeqsUpTo(CffiLogicals, MaxServers)
    /\ status_file \in CffiFiles
    /\ loads = [i \in 1..Len(logicals) |-> StaleLoad]
    /\ loads0 = loads
    /\ \E ln \in BOOLEAN, sn \in BOOLEAN, on \in BOOLEAN, ul \in {<<>>, <<Toulouse>>},
          uc \in CffiCountryPtrs :
          call = [logicals_null |-> ln, status_file_null |-> sn, loads_null |-> on,
                  user_location_ptr |-> ul, user_country_ptr |-> uc]
    /\ \E e \in {[ptr |-> FALSE, msg |-> <<>>], [ptr |-> TRUE, msg |-> <<"stale">>]} :
          ret = [code |-> 0, error |-> e]
    /\ pc = "cffi_entry"
    /\ user_location = <<>>
    /\ user_country = <<>>
    /\ jitter_enabled = FALSE
    /\ statuses = NoParser
    /\ result = NoResult
    /\ k = 0
    /\ error_reported = FALSE
    /\ warnings = <<>>
    /\ sink_calls = <<>>
    /\ lookups = <<>>
    /\ jitters = <<>>

\* compute_loads_cffi leaving `*error` as the caller passed it
CffiEnter_without_reset ==
    /\ pc = "cffi_entry"
    /\ LET reset == ret.error
           country == IF call.user_country_ptr = <<>> THEN CountryOk(<<>>)
                      ELSE Country_try_from(call.user_country_ptr[1])
       IN IF call.logicals_null \/ call.status_file_null \/ call.loads_null
          THEN /\ ret' = [code |-> -1,
                          error |-> set_err(reset, "null pointer for required parameter")]
               /\ pc' = "cffi_done"
               /\ UNCHANGED <<user_location, user_country>>
          ELSE IF ~country.ok
          THEN /\ ret' = [code |-> -2, error |-> set_err(reset, country.err)]
               /\ pc' = "cffi_done"
               /\ UNCHANGED <<user_location, user_country>>
          ELSE /\ ret' = [code |-> 0, error |-> reset]
               /\ pc' = "try_from"
               /\ user_location' = call.user_location_ptr
               /\ user_country' = IF call.user_country_ptr = <<>> THEN <<>>
                                  ELSE <<country.value>>
    /\ UNCHANGED <<loads, logicals, status_file, jitter_enabled, statuses, result,
                   k, error_reported, warnings, sink_calls, lookups, jitters,
                   loads0, call>>

\* lines 37-82: `*error` is reset, the required pointers are tested, the user
\* location and country are read, and compute_loads is entered with an output
\* slice of logicals_len entries
CffiEnter ==
    /\ pc = "cffi_entry"
    /\ LET reset == IF ret.error.ptr THEN [ptr |-> TRUE, msg |-> <<>>] ELSE ret.error
           country == IF call.user_country_ptr = <<>> THEN CountryOk(<<>>)
                      ELSE Country_try_from(call.user_country_ptr[1])
       IN IF call.logicals_null \/ call.status_file_null \/ call.loads_null
          THEN /\ ret' = [code |-> -1,
                          error |-> set_err(reset, "null pointer for required parameter")]
               /\ pc' = "cffi_done"
               /\ UNCHANGED <<user_location, user_country>>
          ELSE IF ~country.ok
          THEN /\ ret' = [code |-> -2, error |-> set_err(reset, country.err)]
               /\ pc' = "cffi_done"
               /\ UNCHANGED <<user_location, user_country>>
          ELSE /\ ret' = [code |-> 0, error |-> reset]
               /\ pc' = "try_from"
               /\ user_location' = call.user_location_ptr
               /\ user_country' = IF call.user_country_ptr = <<>> THEN <<>>
                                  ELSE <<country.value>>
    /\ UNCHANGED <<loads, logicals, status_file, jitter_enabled, statuses, result,
                   k, error_reported, warnings, sink_calls, lookups, jitters,
                   loads0, call>>

\* lines 84-95: the result of compute_loads becomes -3 with a message, or 0
CffiReturn ==
    /\ pc = "returned"
    /\ ret' = IF result.kind # "Ok"
              THEN [code |-> -3, error |-> set_err(ret.error, Error_to_string(result))]
              ELSE [code |-> 0, error |-> ret.error]
    /\ pc' = "cffi_done"
    /\ UNCHANGED <<loads, logicals, status_file, user_location, user_country,
                   jitter_enabled, statuses, result, k, error_reported, warnings,
                   sink_calls, lookups, jitters, loads0, call>>

NextCffi == CffiEnter \/ TryFrom \/ CheckLengths \/ LoopBody \/ ReturnOk \/ CffiReturn

SpecCffi == InitCffi /\ [][NextCffi]_vars

-----------------------------------------------------------------------------
(* compute_loads called again and again on one output buffer, jitter disabled *)

\* a valid record without the autoconnectable bit and one rejected for its load
RepeatRecords == {make_server(3, 57, F32_HALF), make_server(1, 150, F32_ONE)}

\* a buffer without a header, and the snapshots of MaxRecords records
RepeatFiles ==
    {<<>>} \cup {VERSION_HEADER \o Flatten(rs) :
                    rs \in [1..MaxRecords -> RepeatRecords]}

\* n servers whose status indexes count up from d, the last one possibly out of
\* range
RepeatLogicals ==
    {[i \in 1..n |-> Logical((i - 1 + d) % (MaxRecords + 1), 0, 0, Paris, Paris, FR)] :
        n \in 0..MaxServers, d \in 0..1}

\* call: the number of the running call and the length of the log at its
\* start; ret: the snapshot, the result and the output of each finished call
InitRepeat ==
    /\ logicals \in RepeatLogicals
    /\ \E n \in {Len(logicals), MaxServers} : loads = [i \in 1..n |-> StaleLoad]
    /\ status_file \in RepeatFiles
    /\ user_location = <<Toulouse>>
    /\ user_country = <<FR>>
    /\ jitter_enabled = FALSE
    /\ pc = "try_from"
    /\ statuses = NoParser
    /\ result = NoResult
    /\ k = 0
    /\ error_reported = FALSE
    /\ warnings = <<>>
    /\ sink_calls = <<>>
    /\ lookups = <<>>
    /\ jitters = <<>>
    /\ loads0 = loads
    /\ call = [n |-> 1, logged |-> 0]
    /\ ret = <<>>

\* the caller invokes compute_loads once more: same metadata, same user, the
\* output buffer as the last call left it, any snapshot
CallAgain ==
    /\ pc = "returned"
    /\ call.n < MaxCalls
    /\ status_file' \in RepeatFiles
    /\ ret' = Append(ret, [status_file |-> status_file, result |-> result, loads |-> loads])
    /\ call' = [n |-> call.n + 1, logged |-> Len(warnings)]
    /\ loads0' = loads
    /\ pc' = "try_from"
    /\ statuses' = NoParser
    /\ result' = NoResult
    /\ k' = 0
    /\ lookups' = <<>>
    /\ jitters' = <<>>
    /\ UNCHANGED <<loads, logicals, user_location, user_country, jitter_enabled,
                   error_reported, warnings, sink_calls>>

NextRepeat == TryFrom \/ CheckLengths \/ LoopBody \/ ReturnOk \/ CallAgain

SpecRepeat == InitRepeat /\ [][NextRepeat]_vars

-----------------------------------------------------------------------------
(* compute_loads on records whose status bytes have bits beyond the three    *)
(* known ones                                                                *)

\* status bytes that agree on bits 0..2, or on bits 0..1, and differ elsewhere
ReservedStatuses == {3, 7, 3 + 8, 3 + 240, 7 + 128, 255, 1 + 16, 5 + 64}

ReservedRecords == {make_server(s, 57, F32_HALF) : s \in ReservedStatuses}

InitReserved ==
    /\ logicals \in RepeatLogicals
    /\ loads = [i \in 1..Len(logicals) |-> StaleLoad]
    /\ status_file \in {VERSION_HEADER \o Flatten(rs) :
                           rs \in [1..MaxRecords -> ReservedRecords]}
    /\ \E c \in Contexts :
          /\ user_location = c.location
          /\ user_country = c.country
          /\ jitter_enabled = c.jitter
    /\ pc = "try_from"
    /\ statuses = NoParser
    /\ result = NoResult
    /\ k = 0
    /\ error_reported = FALSE
    /\ warnings = <<>>
    /\ sink_calls = <<>>
    /\ lookups = <<>>
    /\ jitters = <<>>
    /\ loads0 = loads
    /\ call = <<>>
    /\ ret = <<>>

SpecReserved == InitReserved /\ [][Next]_vars

-----------------------------------------------------------------------------
(* The status file as the binary layout describes it, read from the bytes    *)

\* number of whole records after the 4-byte header
RecordCount(file) == (Len(file) - 4) \div 6

\* header 01 00 00 00 and a body that is a multiple of 6 bytes
StructurallyValid(file) ==
    /\ Len(file) >= 4
    /\ file[1] = 1 /\ file[2] = 0 /\ file[3] = 0 /\ file[4] = 0
    /\ (Len(file) - 4) % 6 = 0

RecordStatus(file, i) == file[4 + 6 * i + 1]

RecordLoad(file, i) == file[4 + 6 * i + 2]

RecordScore(file, i) ==
    f32_from_le_bytes(file[4 + 6 * i + 3], file[4 + 6 * i + 4],
                      file[4 + 6 * i + 5], file[4 + 6 * i + 6])

RecordTriple(file, i) ==
    [status |-> RecordStatus(file, i), load |-> RecordLoad(file, i),
     partial_score |-> RecordScore(file, i)]

\* load <= 100 and 0.0 <= partial score <= 1.0
RecordInRange(file, i) ==
    i < RecordCount(file) /\ RecordLoad(file, i) <= 100 /\ F32InUnitRange(RecordScore(file, i))

\* the record is present and one of the tests of validate_server rejects it
RecordRejected(file, i) ==
    /\ i < RecordCount(file)
    /\ \/ RecordLoad(file, i) > 100
       \/ F32LtZero(RecordScore(file, i))
       \/ F32GtOne(RecordScore(file, i))

Succeeded == pc = "returned" /\ result.kind = "Ok"

Failed == pc = "returned" /\ result.kind # "Ok"

IndexOf(n) == logicals[n].status_reference.index

-----------------------------------------------------------------------------
(* Claims *)

\* C1: after a successful compute_loads, output[i] is written for every i and
\* is the entry computed from metadata[i], the status found at
\* metadata[i].status_reference.index, the user context and the i-th jitter
\* sample; no entry is skipped and none depends on another metadata entry.
C1_OutputPositional ==
    Succeeded =>
        /\ Len(loads) = Len(logicals)
        /\ Len(jitters) = Len(logicals)
        /\ \A i \in 1..Len(logicals) :
              LET status == Parser_get(SubSeqFrom(status_file, 5), IndexOf(i),
                                       ServerStatus_default).value
              IN loads[i] = Load(BitSet(status.status, 1), BitSet(status.status, 2),
                                 BitSet(status.status, 4), status.load,
                                 ScoreOf(logicals[i], status, jitters[i],
                                         user_location, user_country))

C1_Witness ==
    /\ Succeeded
    /\ Len(logicals) = 2
    /\ logicals[1] # logicals[2]
    /\ loads[1] # loads[2]
    /\ loads[1] # StaleLoad /\ loads[2] # StaleLoad

C3_TryFromChecks ==
    pc \in {"p_get", "p_failed"} =>
        /\ statuses.ok = StructurallyValid(status_file)
        /\ statuses.ok = (pc = "p_get")
        /\ Len(status_file) < 4 =>
              statuses.msg = "Failed to read first 4 bytes in magic number"
        /\ (Len(status_file) >= 4 /\ SubSeq(status_file, 1, 4) # <<1, 0, 0, 0>>) =>
              statuses.msg = "Invalid magic number"
        /\ (Len(status_file) >= 4 /\ SubSeq(status_file, 1, 4) = <<1, 0, 0, 0>>
               /\ (Len(status_file) - 4) % 6 # 0) =>
              statuses.msg = "Status file is corrupt"
        /\ status_file = <<1, 0, 0, 0>> => (statuses.ok /\ Len(statuses.body) = 0)

C3_Witness ==
    /\ pc = "p_failed"
    /\ Len(status_file) >= 4
    /\ SubSeq(status_file, 1, 4) # <<1, 0, 0, 0>>
    /\ (Len(status_file) - 4) % 6 # 0
    /\ statuses.msg = "Invalid magic number"

\* C4: with a structurally valid status buffer and output.len() different from
\* metadata.len(), compute_loads returns LengthsNotConsistent with servers =
\* metadata.len() and loads = output.len().
C4_LengthMismatchReported ==
    (pc = "returned" /\ StructurallyValid(status_file) /\ Len(loads) # Len(logicals)) =>
        /\ result.kind = "LengthsNotConsistent"
        /\ result.servers = Len(logicals)
        /\ result.loads = Len(loads)

C4_Witness ==
    /\ pc = "returned"
    /\ Len(logicals) = 1
    /\ Len(loads) = 2
    /\ result.kind = "LengthsNotConsistent"
    /\ result.servers = 1
    /\ result.loads = 2

\* C5 (as claimed): whenever output.len() differs from metadata.len(),
\* compute_loads returns the length-mismatch error, for every status buffer,
\* a structurally invalid one included.
C5_LengthCheckFirst ==
    (pc = "returned" /\ Len(loads) # Len(logicals)) => result.kind = "LengthsNotConsistent"

\* C5 (amended): the status buffer is parsed first.  With mismatched lengths
\* compute_loads returns the parse error when the buffer is structurally
\* invalid and the length-mismatch error when it is valid, in both cases
\* before any record is looked up or any jitter sample drawn.
C5_ParseThenLengthCheck ==
    (pc = "returned" /\ Len(loads) # Len(logicals)) =>
        /\ result.kind = IF StructurallyValid(status_file)
                         THEN "LengthsNotConsistent" ELSE "ParserError"
        /\ lookups = <<>>
        /\ jitters = <<>>

C5_Witness ==
    /\ pc = "returned"
    /\ Len(loads) # Len(logicals)
    /\ ~StructurallyValid(status_file)
    /\ result.kind = "ParserError"

\* C6: when compute_loads returns an error, every element of the output is
\* what it was before the call, and no record was looked up, no jitter sample
\* drawn and no decode error logged.
C6_NoPartialResults ==
    Failed =>
        /\ loads = loads0
        /\ lookups = <<>>
        /\ jitters = <<>>
        /\ sink_calls = <<>>
        /\ warnings = <<>>

C6_Witness ==
    /\ Failed
    /\ result.kind = "LengthsNotConsistent"
    /\ Len(loads) = 2
    /\ loads = <<StaleLoad, StaleLoad>>
    /\ Len(logicals) = 1
    /\ RecordRejected(status_file, IndexOf(1))

\* C7: on a parsed snapshot, get(i, default, sink) with i >= record_count()
\* returns default and does not invoke the sink.
C7_OutOfRangeGivesDefault ==
    pc = "p_get" =>
        \A n \in 1..Len(lookups) :
            lookups[n].index >= RecordCount(status_file) =>
                /\ lookups[n].value = lookups[n].default
                /\ lookups[n].calls = <<>>

C7_Witness ==
    /\ pc = "p_get"
    /\ RecordCount(status_file) = 1
    /\ Len(lookups) = 2
    /\ lookups[1].index = 1 /\ lookups[2].index = 2
    /\ lookups[1].default # lookups[2].default
    /\ lookups[1].value # lookups[2].value
    /\ sink_calls = <<>>

\* C8 (as claimed): get(i, default, sink) with i < record_count() returns the
\* decoded triple without invoking the sink when load <= 100 and
\* 0.0 <= partial score <= 1.0, and otherwise invokes the sink exactly once,
\* with index i, and returns default; k calls on invalid records invoke the
\* sink k times.
C8_GetValidates ==
    pc = "p_get" =>
        /\ \A n \in 1..Len(lookups) :
              lookups[n].index < RecordCount(status_file) =>
                  IF RecordInRange(status_file, lookups[n].index)
                  THEN /\ lookups[n].value = RecordTriple(status_file, lookups[n].index)
                       /\ lookups[n].calls = <<>>
                  ELSE /\ lookups[n].value = lookups[n].default
                       /\ Len(lookups[n].calls) = 1
                       /\ lookups[n].calls[1].index = lookups[n].index
        /\ Len(sink_calls) =
              Cardinality({n \in 1..Len(lookups) :
                              /\ lookups[n].index < RecordCount(status_file)
                              /\ ~RecordInRange(status_file, lookups[n].index)})

\* C9: within one compute_loads call at most one warning is logged: exactly
\* one if a looked-up record fails validation and none otherwise; it carries
\* the index of the first failing lookup in metadata order; every failing
\* lookup resolves to the default record.
C9_WarnOnce ==
    pc \in {"loop", "returned"} =>
        LET failing == {n \in 1..k : RecordRejected(status_file, IndexOf(n))}
            first == CHOOSE n \in failing : \A m \in failing : n <= m
        IN /\ Len(warnings) <= 1
           /\ failing = {} => warnings = <<>>
           /\ failing # {} => (Len(warnings) = 1 /\ warnings[1].index = IndexOf(first))
           /\ \A n \in failing :
                 /\ lookups[n].value = [status |-> 0, load |-> 0,
                                        partial_score |-> [sign |-> 0, exp |-> 0, mant |-> 0]]
                 /\ loads[n].load = 0
                 /\ ~loads[n].is_enabled /\ ~loads[n].is_visible /\ ~loads[n].is_autoconnectable

C9_Witness ==
    /\ Succeeded
    /\ Len(logicals) = 2
    /\ IndexOf(1) = 1 /\ IndexOf(2) = 0
    /\ RecordRejected(status_file, 0) /\ RecordRejected(status_file, 1)
    /\ Len(sink_calls) = 2
    /\ Len(warnings) = 1
    /\ warnings[1].index = 1

\* C10: for every buffer Parser::try_from accepts, Parser::len() is
\* (buffer_length - 4) / 6 exactly, and Parser::is_empty() holds exactly when
\* buffer_length is 4.
C10_RecordCount ==
    pc = "p_get" =>
        /\ Parser_len(statuses.body) * 6 = Len(status_file) - 4
        /\ Parser_is_empty(statuses.body) = (Len(status_file) = 4)

C10_Witness ==
    /\ pc = "p_get"
    /\ Len(status_file) = 16
    /\ Parser_len(statuses.body) = 2
    /\ ~Parser_is_empty(statuses.body)

\* C11: a triple (status, load, partial score) with any status byte, a load of
\* at most 100 and a partial score within [0.0, 1.0], written as the six bytes
\* of record i of a valid status file, is returned unchanged by get(i), and the
\* error callback is not invoked.
C11_RoundTrip ==
    (/\ pc = "c_done"
     /\ call.server.load <= 100
     /\ F32InUnitRange(call.server.partial_score))
        => (ret.value = call.server /\ ret.calls = <<>>)

C11_Witness ==
    /\ pc = "c_done"
    /\ call.index = 1
    /\ call.server = [status |-> 255, load |-> 100,
                      partial_score |-> f32_from_le_bytes(164, 112, 125, 63)]
    /\ ret.value = call.server

\* the call made and the value it returned
Returned(fn) == pc = "s_done" /\ ret.fn = fn

\* the distance score and the penalty of the call's arguments
DistanceScoreOfCall ==
    compute_distance_score(call.server.exit_location, call.server.entry_location,
                           call.user_location)

PenaltyOfCall ==
    compute_penalty(call.server.status_penalty, call.server.status_cost,
                    call.server.partial_score, call.user_country,
                    call.server.country, call.server.status)

\* x.clamp(0.0, 1.0)
Clamp01(x) == IF x < 0 THEN 0 ELSE IF x > One THEN One ELSE x

\* C12: compute_score returns clamp(max(distance_score, partial_score) + jitter,
\* 0, 1) + penalty, so the score lies in [penalty, penalty + 1]; with zero jitter
\* it is distance_score + penalty when distance_score >= partial_score and
\* distance_score is within [0, 1], and partial_score + penalty when
\* partial_score > distance_score.
C12_ScoreFormula ==
    Returned("compute_score") =>
        LET ds == DistanceScoreOfCall
            ps == call.server.partial_score
            j == call.server.normalized_jitter
            capped == IF ps.nan THEN ds ELSE IF ds >= ps.v THEN ds ELSE ps.v
        IN /\ ret.value = Clamp01(capped + j) + PenaltyOfCall
           /\ PenaltyOfCall <= ret.value /\ ret.value <= PenaltyOfCall + One
           /\ (j = 0 /\ ~ps.nan /\ ds >= ps.v /\ 0 <= ds /\ ds <= One)
                 => ret.value = ds + PenaltyOfCall
           /\ (j = 0 /\ ~ps.nan /\ ps.v > ds) => ret.value = ps.v + PenaltyOfCall

\* partial score 0.5 in another country than the user's, next to the user:
\* 0.5 + 1.0 = 1.5
C12_Witness ==
    /\ Returned("compute_score")
    /\ call.server.normalized_jitter = 0
    /\ ~call.server.partial_score.nan
    /\ call.server.partial_score.v = One \div 2
    /\ call.server.partial_score.v > DistanceScoreOfCall
    /\ call.server.status_penalty = 0
    /\ PenaltyOfCall = One
    /\ ret.value = One + One \div 2

\* the enabled bit or the visible bit of the call's status is clear
Disqualified(status) == ~BitSet(status, 1) \/ ~BitSet(status, 2)

\* the user country is unknown or is the server's country
SameCountry == call.user_country = <<>> \/ call.user_country[1] = call.server.country

\* what compute_penalty added to status_penalty
AddedPenalty == ret.value - call.server.status_penalty

\* C13 as stated: a status lacking the enabled or the visible bit gives a
\* penalty of at least 1000.0, whatever status_penalty is.
C13_AtLeastThousand ==
    (Returned("compute_penalty") /\ Disqualified(call.server.status))
        => ret.value >= 1000 * One

\* C13: a status lacking the enabled or the visible bit gives a penalty of at
\* least status_penalty + 1000.0, hence of at least 1000.0 when status_penalty
\* is not negative.
C13_ThousandAboveStatusPenalty ==
    (Returned("compute_penalty") /\ Disqualified(call.server.status))
        => /\ ret.value >= call.server.status_penalty + 1000 * One
           /\ call.server.status_penalty >= 0 => ret.value >= 1000 * One

C13_Witness ==
    /\ Returned("compute_penalty")
    /\ call.server.status = 1
    /\ call.server.status_penalty = 0
    /\ ret.value = 1000 * One

\* C14: in the user's own country, or with no user country, and a partial
\* score below 0.99, compute_penalty returns status_penalty, plus 1000.0 exactly
\* when the enabled or the visible bit is clear, for every cost.
C14_NoCountryPenaltyAtHome ==
    (/\ Returned("compute_penalty")
     /\ SameCountry
     /\ ~call.server.partial_score.nan
     /\ 100 * call.server.partial_score.v < 99 * One)
        => AddedPenalty = IF Disqualified(call.server.status) THEN 1000 * One ELSE 0

C14_Witness ==
    /\ Returned("compute_penalty")
    /\ call.user_country = <<call.server.country>>
    /\ call.server.status_cost = 1
    /\ call.server.status = 3
    /\ call.server.partial_score = [nan |-> FALSE, v |-> 9899]
    /\ AddedPenalty = 0

\* C15: with a known user country other than the server's, compute_penalty
\* adds, beyond status_penalty and the 1000.0 term, 4.0 when cost = 1 and 1.0
\* for every other cost, whatever the partial score; and in every call the
\* penalty minus status_penalty is one of 0, 1, 4, 1000, 1001, 1004.
C15_AbroadPenalty ==
    Returned("compute_penalty") =>
        /\ AddedPenalty \in {0, One, 4 * One, 1000 * One, 1001 * One, 1004 * One}
        /\ ~SameCountry =>
              AddedPenalty - (IF Disqualified(call.server.status) THEN 1000 * One ELSE 0)
                 = IF call.server.status_cost = 1 THEN 4 * One ELSE One

C15_Witness ==
    /\ Returned("compute_penalty")
    /\ ~SameCountry
    /\ call.server.status_cost = 1
    /\ call.server.partial_score = [nan |-> FALSE, v |-> One]
    /\ call.server.status = 2
    /\ AddedPenalty = 1004 * One

\* C16: of two servers with the same status_penalty, scored for the same user
\* with any jitter samples, the one whose status lacks the enabled or the
\* visible bit gets a strictly greater score than the one that has both bits.
C16_DisqualifiedRanksLast ==
    (/\ pc = "r_done"
     /\ call.a.status_penalty = call.b.status_penalty
     /\ Disqualified(call.a.status)
     /\ ~Disqualified(call.b.status))
        => ret.value[1] > ret.value[2]

\* the closest case: the disqualified server with base score 0 and no other
\* penalty, the other one with base score 1 and the penalties 1.0 + 3.0
C16_Witness ==
    /\ pc = "r_done"
    /\ call.a.status_penalty = call.b.status_penalty
    /\ Disqualified(call.a.status)
    /\ ~Disqualified(call.b.status)
    /\ ret.value[1] = call.a.status_penalty + 1000 * One
    /\ ret.value[2] = call.b.status_penalty + 5 * One

\* C17: without a user coordinate the distance score is
\* normalize(738000 / max(1, 0)) = 1 - 73.8, which is negative, and the score
\* is clamp(partial_score + jitter, 0, 1) + penalty, whatever the entry and
\* exit coordinates of the server are.
C17_NoUserLocation ==
    /\ (Returned("compute_distance_score") /\ call.user_location = <<>>)
          => (ret.value = One - (738 * One) \div 10 /\ ret.value < 0)
    /\ (Returned("compute_score") /\ call.user_location = <<>>
            /\ ~call.server.partial_score.nan)
          => ret.value = Clamp01(call.server.partial_score.v + call.server.normalized_jitter)
                            + PenaltyOfCall

\* a server whose exit is far from its entry, scored without a user location
C17_Witness ==
    /\ Returned("compute_score")
    /\ call.user_location = <<>>
    /\ call.server.entry_location # call.server.exit_location
    /\ call.server.partial_score = [nan |-> FALSE, v |-> One \div 2]
    /\ call.server.normalized_jitter # 0
    /\ ret.value = One \div 2 + call.server.normalized_jitter + PenaltyOfCall

\* the score compute_loads gives server i when the jitter sample is 0.0
ScoreWithoutJitter(i) ==
    ScoreOf(logicals[i],
            Parser_get(SubSeqFrom(status_file, 5), IndexOf(i), ServerStatus_default).value,
            0, user_location, user_country)

\* C18: without the jitter feature every sample is 0.0; with it every sample
\* has magnitude at most 0.005; compute_loads draws one sample per server it
\* processes, and the score of each server is within 0.005 of the score the
\* same call gives with zero jitter.
C18_JitterBounded ==
    /\ \A n \in 1..Len(jitters) :
          /\ ~jitter_enabled => jitters[n] = 0
          /\ 200 * jitters[n] <= One /\ -One <= 200 * jitters[n]
    /\ Len(jitters) = k
    /\ Succeeded =>
          /\ Len(jitters) = Len(logicals)
          /\ \A i \in 1..Len(logicals) :
                /\ 200 * (loads[i].score - ScoreWithoutJitter(i)) <= One
                /\ 200 * (ScoreWithoutJitter(i) - loads[i].score) <= One

C18_Witness ==
    /\ Succeeded
    /\ jitter_enabled
    /\ Len(logicals) = 2
    /\ 200 * jitters[1] = One
    /\ jitters[2] < 0
    /\ loads[1].score = ScoreWithoutJitter(1) + jitters[1]
    /\ loads[2].score = ScoreWithoutJitter(2) + jitters[2]

\* an ASCII letter, of either case
IsLetter(c) == (65 <= c /\ c <= 90) \/ (97 <= c /\ c <= 122)

\* an uppercase ASCII letter
IsUpper(c) == 65 <= c /\ c <= 90

\* the byte a letter is stored as when it is converted to uppercase
Upper(c) == IF 97 <= c /\ c <= 122 THEN c - 32 ELSE c

CountryDone(fns) == pc = "cc_done" /\ ret.fn \in fns

\* C19: constructing a CountryCode from two bytes succeeds exactly when both
\* are ASCII letters and stores them in uppercase, and every CountryCode the
\* API hands out, the default of Logical::default() included, is two uppercase
\* ASCII letters.
C19_TwoUppercaseLetters ==
    /\ CountryDone({"CountryCode_try_from"}) =>
          /\ ret.ok <=> (IsLetter(call.value[1]) /\ IsLetter(call.value[2]))
          /\ ret.ok => ret.value = <<Upper(call.value[1]), Upper(call.value[2])>>
    /\ (CountryDone({"CountryCode_try_from", "CountryCode_try_from_str", "Logical_default"})
            /\ ret.ok)
          => (IsUpper(ret.value[1]) /\ IsUpper(ret.value[2]))

\* the user country of the entry points named in fns is never coerced
NeverCoerced(fns) ==
    CountryDone(fns) =>
        /\ Len(call.value) # 2 => (~ret.ok /\ ret.err = "InvalidLength")
        /\ (Len(call.value) = 2 /\ ~(IsUpper(call.value[1]) /\ IsUpper(call.value[2])))
              => (~ret.ok /\ ret.err = "InvalidFormat")
        /\ ret.ok => ret.value = call.value

\* C20 as stated: the user country is never coerced, for the type taken by
\* every entry point that calls compute_loads.
C20_NeverCoercedAnywhere ==
    NeverCoerced({"Country_try_from", "Country_try_from_str",
                  "compute_loads_cffi", "compute_loads_uniffi"})

\* C20: a Country is never coerced: a string whose length is not 2 bytes gives
\* InvalidLength, two bytes that are not both uppercase ASCII letters give
\* InvalidFormat, and a Country that is built holds the input bytes.  This is
\* the user country of compute_loads_cffi; the user country of
\* compute_loads_uniffi is a CountryCode, which is built from any two ASCII
\* bytes with lowercase letters turned to uppercase.
C20_CountryNeverCoerced ==
    /\ NeverCoerced({"Country_try_from", "Country_try_from_str", "compute_loads_cffi"})
    /\ CountryDone({"compute_loads_cffi"}) =>
          user_country = IF ret.ok THEN <<call.value>> ELSE <<>>
    /\ CountryDone({"compute_loads_uniffi"}) =>
          /\ ret.ok <=> (Len(call.value) = 2 /\ call.value[1] < 128 /\ call.value[2] < 128)
          /\ ret.ok => ret.value = <<Upper(call.value[1]), Upper(call.value[2])>>

\* "nz" given to compute_loads_cffi is refused
C20_Witness ==
    /\ CountryDone({"compute_loads_cffi"})
    /\ call.value = <<110, 122>>
    /\ ~ret.ok
    /\ ret.err = "InvalidFormat"
    /\ user_country = <<>>

\* C21: the distance between two finite coordinates is a finite number that
\* is not negative, the distance from a coordinate to itself is 0.0, and
\* distance(a, b) = distance(b, a).
C21_DistanceTotal ==
    pc = "d_done" =>
        /\ ~ret.value.nan
        /\ ret.value.v >= 0
        /\ call.a = call.b => ret.value.v = 0
        /\ ret.value = distance_from(call.b, call.a)

\* C22: every pass of Parser::iter yields one record for each whole record of
\* the body, in index order, the k-th being the bytes 6k..6k+5 decoded without
\* validation or default; every pass gives the same sequence; and for a valid
\* record k the k-th element is what get(k, default, sink) returns.
C22_IterRaw ==
    pc = "p_get" =>
        \A n \in 1..Len(ret) :
            /\ Len(ret[n]) = RecordCount(status_file)
            /\ ret[n] = ret[1]
            /\ \A i \in 0..(RecordCount(status_file) - 1) :
                  /\ ret[n][i + 1] = RecordTriple(status_file, i)
                  /\ RecordInRange(status_file, i) =>
                        \A default \in Defaults :
                            Parser_get(statuses.body, i, default)
                                = [value |-> ret[n][i + 1], calls |-> <<>>]

\* two passes over a file whose first record has load 101 and whose second
\* record is valid
C22_Witness ==
    /\ pc = "p_get"
    /\ Len(ret) = 2
    /\ RecordCount(status_file) = 2
    /\ RecordLoad(status_file, 0) = 101
    /\ RecordInRange(status_file, 1)
    /\ ret[2][1].load = 101
    /\ ret[2][2] = Parser_get(statuses.body, 1, ServerStatus_default).value

\* a required pointer of the call is null
AnyRequiredNull == call.logicals_null \/ call.status_file_null \/ call.loads_null

\* the user country pointer is not null and its two bytes are not two
\* uppercase ASCII letters
BadCountryPtr ==
    /\ call.user_country_ptr # <<>>
    /\ ~(IsUpper(call.user_country_ptr[1][1]) /\ IsUpper(call.user_country_ptr[1][2]))

\* C23: compute_loads_cffi returns -1 when a required pointer is null, else -2
\* when the user country is invalid (the output is then untouched), else -3
\* when compute_loads fails, else 0; a non-null error out-pointer is reset to
\* null on entry and holds a message after return exactly when the code is
\* negative; the length-mismatch error never occurs.
C23_CffiCodes ==
    /\ (pc # "cffi_entry" /\ ret.error.ptr) => ret.error.msg # <<"stale">>
    /\ (pc \notin {"cffi_entry", "cffi_done"} /\ ret.error.ptr) => ret.error.msg = <<>>
    /\ result.kind # "LengthsNotConsistent"
    /\ pc = "cffi_done" =>
          /\ ret.code = IF AnyRequiredNull THEN -1
                        ELSE IF BadCountryPtr THEN -2
                        ELSE IF ~StructurallyValid(status_file) THEN -3
                        ELSE 0
          /\ ret.code \in {-1, -2} =>
                (loads = loads0 /\ lookups = <<>> /\ statuses = NoParser)
          /\ ret.error.ptr => (ret.error.msg # <<>> <=> ret.code < 0)
          /\ ~ret.error.ptr => ret.error.msg = <<>>

\* every return code is reached; this one is -2 with a message, the required
\* pointers being non-null and the output holding two stale entries
C23_Witness ==
    /\ pc = "cffi_done"
    /\ ret.code = -2
    /\ ret.error = [ptr |-> TRUE, msg |-> <<"InvalidFormat">>]
    /\ Len(loads) = 2
    /\ loads = loads0

\* the server's status index is beyond the record count, or validate_server
\* rejects the record found there
RecordMissing(i) ==
    IndexOf(i) >= RecordCount(status_file) \/ RecordRejected(status_file, IndexOf(i))

\* the country and cost terms of the penalty of server i
CountryTerms(i) ==
    LET abroad == user_country # <<>> /\ user_country[1] # logicals[i].exit_country
    IN (IF abroad THEN One ELSE 0)
         + (IF abroad /\ logicals[i].status_reference.cost = 1 THEN 3 * One ELSE 0)

\* C24: after a successful compute_loads, a server whose status index is beyond
\* the record count, or whose record fails validation, has all three flags
\* false, load 0 and score clamp(max(distance_score, 0) + jitter, 0, 1)
\* + status_penalty + 1000 + country and cost terms, exactly the entry of an
\* all-zero record; every other server has the entry of its own record.
C24_MissingIsZeroRecord ==
    Succeeded =>
        \A i \in 1..Len(logicals) :
            LET distance_score ==
                    compute_distance_score(logicals[i].exit_location,
                                           logicals[i].entry_location, user_location)
                zero == [status |-> 0, load |-> 0,
                         partial_score |-> [sign |-> 0, exp |-> 0, mant |-> 0]]
            IN IF RecordMissing(i)
               THEN /\ loads[i] = Load(FALSE, FALSE, FALSE, 0,
                                       Clamp01(Max(distance_score, 0) + jitters[i])
                                         + logicals[i].status_reference.penalty
                                         + 1000 * One + CountryTerms(i))
                    /\ loads[i] = LoadOf(zero, ScoreOf(logicals[i], zero, jitters[i],
                                                       user_location, user_country))
               ELSE loads[i] = LoadOf(RecordTriple(status_file, IndexOf(i)),
                                      ScoreOf(logicals[i],
                                              RecordTriple(status_file, IndexOf(i)),
                                              jitters[i], user_location, user_country))

\* the first server's record has the enabled bit and is rejected, so its entry
\* is that of the zero record, while the second server's valid record keeps
\* its own load
C24_Witness ==
    /\ Succeeded
    /\ Len(logicals) = 2
    /\ RecordRejected(status_file, IndexOf(1))
    /\ RecordStatus(status_file, IndexOf(1)) = 1
    /\ ~loads[1].is_enabled /\ loads[1].load = 0
    /\ loads[1].score >= 1000 * One
    /\ RecordCount(status_file) = 2
    /\ IndexOf(2) = 0
    /\ RecordInRange(status_file, 0)
    /\ loads[2].load = RecordLoad(status_file, 0)
    /\ loads[2].load > 0

\* C25: after a successful compute_loads every output entry has a load
\* between 0 and 100, whatever the status buffer and the metadata.
C25_LoadPercentage ==
    Succeeded => \A i \in 1..Len(loads) : loads[i].load \in 0..100

\* a record with load 150 was looked up and its entry has load 0, next to an
\* entry with the largest load, 100
C25_Witness ==
    /\ Succeeded
    /\ Len(loads) = 2
    /\ IndexOf(1) < RecordCount(status_file)
    /\ RecordLoad(status_file, IndexOf(1)) = 150
    /\ loads[1].load = 0
    /\ loads[2].load = 100

\* C26 (as claimed): every record Parser::get returns, given a default with
\* load <= 100 and a partial score within [0.0, 1.0], has load <= 100 and
\* 0.0 <= partial score <= 1.0, whatever the four bytes of the partial score
\* are, NaN included.
C26_GetInRange ==
    pc = "p_get" =>
        \A n \in 1..Len(lookups) :
            (lookups[n].default.load <= 100
                /\ F32InUnitRange(lookups[n].default.partial_score)) =>
                /\ lookups[n].value.load <= 100
                /\ F32InUnitRange(lookups[n].value.partial_score)

\* C27 (as claimed): the byte offset handed to the error sink for a rejected
\* record at index i is 4 + 6 * i, the position of the record's first byte in
\* the status file, header included.
C27_OffsetInFile ==
    \A n \in 1..Len(sink_calls) :
        sink_calls[n].byte_offset = Len(VERSION_HEADER) + SERVER_SIZE * sink_calls[n].index

\* the output compute_loads computes from the metadata, the snapshot, the
\* user's location and the user's country when no jitter is added
OutputOf ==
    [i \in 1..Len(logicals) |->
        LET status == IF RecordMissing(i)
                      THEN [status |-> 0, load |-> 0,
                            partial_score |-> [sign |-> 0, exp |-> 0, mant |-> 0]]
                      ELSE RecordTriple(status_file, IndexOf(i))
        IN Load(status.status % 2 = 1, (status.status \div 2) % 2 = 1,
                (status.status \div 4) % 2 = 1, status.load,
                ScoreOf(logicals[i], status, 0, user_location, user_country))]

\* C28: with jitter disabled, the output of a successful compute_loads is a
\* function of the metadata, the status bytes and the user's location and
\* country alone: it does not depend on what the output buffer held before,
\* a call with the inputs of an earlier successful call gives the output that
\* call gave, and a second call on the same buffer changes nothing.
C28_Deterministic ==
    (Succeeded /\ ~jitter_enabled) =>
        /\ loads = OutputOf
        /\ \A c \in 1..Len(ret) :
              (ret[c].status_file = status_file /\ ret[c].result.kind = "Ok") =>
                  loads = ret[c].loads
        /\ (ret # <<>> /\ ret[Len(ret)].status_file = status_file) => loads = loads0

\* the second call succeeded on a buffer holding the different output of a
\* first call on another snapshot
C28_Witness ==
    /\ Succeeded
    /\ call.n = 2
    /\ Len(loads) = 2
    /\ ret[1].result.kind = "Ok"
    /\ ret[1].status_file # status_file
    /\ loads0 = ret[1].loads
    /\ loads0 # loads
    /\ \A i \in 1..2 : loads0[i] # StaleLoad

\* the warnings the running call has logged so far
WarningsOfCall == Len(warnings) - call.logged

\* the running call has looked up a record that validate_server rejects
LooksUpInvalid ==
    \E n \in 1..Len(lookups) : RecordRejected(status_file, lookups[n].index)

\* C30: in any sequence of compute_loads calls, a call that looks up at least
\* one rejected record logs exactly one warning, whether or not an earlier
\* call logged one, and a call that fails, or looks up only valid or
\* out-of-range records, logs none.
C30_WarningPerCall ==
    /\ WarningsOfCall \in {0, 1}
    /\ pc \in {"loop", "returned"} => (WarningsOfCall = 1 <=> LooksUpInvalid)
    /\ Failed => (WarningsOfCall = 0 /\ lookups = <<>>)

\* the second call logged its own warning after the first call had logged one
C30_Witness ==
    /\ Succeeded
    /\ call.n = 2
    /\ call.logged = 1
    /\ LooksUpInvalid
    /\ Len(warnings) = 2
    /\ Len(sink_calls) > 2

\* a second call that looked up valid and out-of-range records only, after a
\* first call that logged a warning
C30_WitnessQuiet ==
    /\ Succeeded
    /\ call.n = 2
    /\ call.logged = 1
    /\ Len(lookups) = 2
    /\ ~LooksUpInvalid
    /\ Len(warnings) = 1

\* servers i and j differ in nothing but their status index, both indexes are
\* in range, both records have the same load and partial score, and both
\* servers drew the same jitter
TwinServers(i, j) ==
    /\ [logicals[i] EXCEPT !.status_reference.index = 0]
          = [logicals[j] EXCEPT !.status_reference.index = 0]
    /\ IndexOf(i) < RecordCount(status_file)
    /\ IndexOf(j) < RecordCount(status_file)
    /\ RecordLoad(status_file, IndexOf(i)) = RecordLoad(status_file, IndexOf(j))
    /\ RecordScore(status_file, IndexOf(i)) = RecordScore(status_file, IndexOf(j))
    /\ jitters[i] = jitters[j]

\* C29: two records that differ only in bits 3..7 of the status byte give
\* identical output entries, and two records that differ only in bit 2, or in
\* bit 2 and bits 3..7, give the same load, score, is_enabled and is_visible.
C29_ReservedBitsIgnored ==
    Succeeded =>
        \A i, j \in 1..Len(logicals) :
            TwinServers(i, j) =>
                LET si == RecordStatus(status_file, IndexOf(i))
                    sj == RecordStatus(status_file, IndexOf(j))
                IN /\ si % 8 = sj % 8 => loads[i] = loads[j]
                   /\ si % 4 = sj % 4 =>
                         /\ loads[i].load = loads[j].load
                         /\ loads[i].score = loads[j].score
                         /\ loads[i].is_enabled = loads[j].is_enabled
                         /\ loads[i].is_visible = loads[j].is_visible

\* status 3 and status 3 + 240 gave one and the same enabled, visible entry
C29_Witness ==
    /\ Succeeded
    /\ Len(logicals) = 2
    /\ TwinServers(1, 2)
    /\ RecordStatus(status_file, IndexOf(1)) = 3
    /\ RecordStatus(status_file, IndexOf(2)) = 243
    /\ loads[1] = loads[2]
    /\ loads[1].is_enabled /\ loads[1].is_visible /\ ~loads[1].is_autoconnectable
    /\ loads[1].score < 1000 * One

\* status 3 and status 7 + 128 differ in the autoconnectable flag alone
C29_WitnessBit2 ==
    /\ Succeeded
    /\ Len(logicals) = 2
    /\ TwinServers(1, 2)
    /\ RecordStatus(status_file, IndexOf(1)) = 3
    /\ RecordStatus(status_file, IndexOf(2)) = 135
    /\ loads[2] = [loads[1] EXCEPT !.is_autoconnectable = TRUE]
    /\ loads[1] # loads[2]

====
